---------------------------- MODULE Spec2Model ----------------------------
(***************************************************************************)
(* A/B testing platform: the variation-assignment helper, the tracking      *)
(* routes, the test-management routes and the statistics utilities.        *)
(*                                                                         *)
(* The state machines of this module:                                      *)
(*   SpecStats   - calls of the z-test and chi-square utilities on         *)
(*                 observation counts                                      *)
(*   SpecRates   - calls of the interval, uplift, sample-size and power    *)
(*                 utilities                                               *)
(*   SpecBayes   - one run of bayesianProbability, draw by draw            *)
(*   SpecAssign  - calls of assignVariation on (userId, testId, split)     *)
(*   SpecBuckets - the bucket walk of assignVariation over every bucket    *)
(*   SpecTrack   - interleaved POST /track/visitor requests on the         *)
(*                 visitors table                                          *)
(*   SpecConvert - SpecTrack with the conversion and event requests on     *)
(*                 the conversions table                                   *)
(*   SpecTests   - create, update and duplicate requests on the tests      *)
(*                 table                                                   *)
(*   SpecStatus  - SpecTests with status changes and deletion              *)
(*   SpecDates   - calls of getDateRange                                   *)
(*   SpecAnalytics - GET /analytics/stats/:clientId over stored rows       *)
(*   SpecReport  - the significance of GET /api/tests and /api/tests/:id   *)
(*   SpecBayesSteps - bayesianProbability down to the steps of gammaRandom *)
(*                 (FairBayesSteps adds the fairness of the draws)         *)
(*   SpecRateLimit - calls of checkRateLimit as time passes                *)
(*   SpecRetry   - one call of retryWithBackoff                            *)
(*   SpecInactive - the tracking routes on tests that are not running      *)
(***************************************************************************)
EXTENDS Integers, Sequences, FiniteSets, TLC

VARIABLES
    obs,          \* SpecStats: <<x1, n1, x2, n2>>, the four counts of the call
    ret,          \* SpecStats, SpecRates, SpecBayes: [fn, val], the last call and its result
    trafficSplit, \* SpecAssign, SpecBuckets: the split as the caller declared it
    calls,        \* SpecAssign: the calls made so far, with their results
    bucket,       \* SpecBuckets: the next bucket value to assign
    tally,        \* SpecBuckets: per label, the bucket values assigned to it
    visitors,     \* SpecTrack: the rows of the visitors table
    reqs,         \* SpecTrack: the POST /track/visitor requests in flight
    clock,        \* SpecTrack: the server's clock (new Date())
    args,         \* SpecRates: the arguments of the last call
    sim,          \* SpecBayes: the locals of bayesianProbability as it runs
    conversionRows, \* SpecConvert: the rows of the conversions table
    convReqs,     \* SpecConvert: the conversion and event requests in flight
    tests,        \* SpecTests: the rows of the tests table
    reply,        \* SpecTests: the last request and the response it got
    rateLimitMap  \* SpecRateLimit: the Map of checkRateLimit, key to timestamps

\* the variables of SpecRates, SpecBayes, SpecConvert and SpecTests
others == <<args, sim, conversionRows, convReqs, tests, reply, rateLimitMap>>

vars == <<obs, ret, trafficSplit, calls, bucket, tally, visitors, reqs, clock, others>>

(***************************************************************************)
(* JavaScript numbers.  A finite number v is held in fixed point as the    *)
(* integer round(v * SCALE); NaN and the two infinities are values of      *)
(* their own and propagate as IEEE 754 prescribes.  Magnitudes are rounded *)
(* to nearest, sign-symmetrically, as IEEE arithmetic is.                  *)
(***************************************************************************)
SCALE == 100 * 100

NaN == [k |-> "NaN", v |-> 0]
Infinity == [k |-> "Inf", v |-> 1]
NegInfinity == [k |-> "Inf", v |-> -1]
Fin(i) == [k |-> "num", v |-> i]
Num(n) == Fin(n * SCALE)

IsNaN(a) == a.k = "NaN"
IsFinite(a) == a.k = "num"
Mag(i) == IF i < 0 THEN -i ELSE i
Sgn(i) == IF i < 0 THEN -1 ELSE IF i > 0 THEN 1 ELSE 0

\* x * y / SCALE on magnitudes, the factors split so no partial product overflows
MulMag(x, y) ==
    LET xh == x \div SCALE
        xl == x % SCALE
        yh == y \div SCALE
        yl == y % SCALE
    IN  xh * yh * SCALE + xh * yl + xl * yh + ((xl * yl + SCALE \div 2) \div SCALE)

\* the fraction r / b (r < b) in units of 1/SCALE, by long division, rounded
RECURSIVE DivFrac(_, _, _)
DivFrac(r, b, unit) ==
    IF unit = 0 THEN (IF 2 * r >= b THEN 1 ELSE 0)
    ELSE ((10 * r) \div b) * unit + DivFrac((10 * r) % b, b, unit \div 10)

DivMag(a, b) == (a \div b) * SCALE + DivFrac(a % b, b, SCALE \div 10)

RECURSIVE ISqrtIn(_, _, _)
ISqrtIn(n, lo, hi) ==
    IF lo >= hi THEN lo
    ELSE LET mid == (lo + hi + 1) \div 2
         IN  IF mid * mid <= n THEN ISqrtIn(n, mid, hi) ELSE ISqrtIn(n, lo, mid - 1)

\* floor of the square root of n
ISqrt(n) == ISqrtIn(n, 0, IF n < 46340 THEN n ELSE 46340)

\* a + b
fAdd(a, b) ==
    IF IsNaN(a) \/ IsNaN(b) THEN NaN
    ELSE IF a.k = "Inf" /\ b.k = "Inf" THEN (IF a.v = b.v THEN a ELSE NaN)
    ELSE IF a.k = "Inf" THEN a
    ELSE IF b.k = "Inf" THEN b
    ELSE Fin(a.v + b.v)

fNeg(a) == IF IsNaN(a) THEN NaN ELSE [k |-> a.k, v |-> -a.v]

\* a - b
fSub(a, b) == fAdd(a, fNeg(b))

\* a * b
fMul(a, b) ==
    IF IsNaN(a) \/ IsNaN(b) THEN NaN
    ELSE IF a.k = "Inf" \/ b.k = "Inf"
         THEN (IF a.v = 0 \/ b.v = 0 THEN NaN
               ELSE [k |-> "Inf", v |-> Sgn(a.v) * Sgn(b.v)])
    ELSE Fin(Sgn(a.v) * Sgn(b.v) * MulMag(Mag(a.v), Mag(b.v)))

\* a / b
fDiv(a, b) ==
    IF IsNaN(a) \/ IsNaN(b) THEN NaN
    ELSE IF a.k = "Inf"
         THEN (IF b.k = "Inf" THEN NaN
               ELSE [k |-> "Inf", v |-> a.v * (IF b.v < 0 THEN -1 ELSE 1)])
    ELSE IF b.k = "Inf" THEN Fin(0)
    ELSE IF b.v = 0
         THEN (IF a.v = 0 THEN NaN ELSE [k |-> "Inf", v |-> Sgn(a.v)])
    ELSE Fin(Sgn(a.v) * Sgn(b.v) * DivMag(Mag(a.v), Mag(b.v)))

\* Math.abs(a)
fAbs(a) == IF IsNaN(a) THEN NaN ELSE [k |-> a.k, v |-> Mag(a.v)]

\* a < b and a <= b: false when either side is NaN
fLt(a, b) ==
    /\ ~IsNaN(a)
    /\ ~IsNaN(b)
    /\ IF a.k = "Inf" THEN a.v < 0 /\ ~(b.k = "Inf" /\ b.v < 0)
       ELSE IF b.k = "Inf" THEN b.v > 0
       ELSE a.v < b.v

fLe(a, b) == ~IsNaN(a) /\ ~IsNaN(b) /\ (a = b \/ fLt(a, b))

\* Math.sqrt(a)
fSqrt(a) ==
    IF IsNaN(a) THEN NaN
    ELSE IF a.k = "Inf" THEN (IF a.v > 0 THEN Infinity ELSE NaN)
    ELSE IF a.v < 0 THEN NaN
    ELSE IF a.v <= 200000 THEN Fin(ISqrt(a.v * SCALE))
    ELSE Fin(ISqrt(a.v) * 100)

\* exp(-m / SCALE) for a magnitude m: a fourth-order Taylor polynomial below
\* 1/4, and exp(-y) = exp(-y/2)^2 above it
RECURSIVE ExpNeg(_)
ExpNeg(m) ==
    IF 4 * m <= SCALE
    THEN LET r2 == MulMag(m, m)
             r3 == MulMag(r2, m)
             r4 == MulMag(r3, m)
         IN  SCALE - m + (r2 \div 2) - (r3 \div 6) + (r4 \div 24)
    ELSE LET h == ExpNeg(m \div 2)
             sq == MulMag(h, h)
         IN  IF m % 2 = 1 THEN MulMag(sq, SCALE - 1) ELSE sq

\* Math.exp(a)
fExp(a) ==
    IF IsNaN(a) THEN NaN
    ELSE IF a.k = "Inf" THEN (IF a.v > 0 THEN Infinity ELSE Fin(0))
    ELSE IF a.v <= 0 THEN Fin(ExpNeg(-a.v))
    ELSE fDiv(Num(1), Fin(ExpNeg(a.v)))


(***************************************************************************)
(* The statistics utilities                                                *)
(***************************************************************************)

\* standard error of the pooled proportion
pooledSE(x1, n1, x2, n2) ==
    LET p == fDiv(Num(x1 + x2), Num(n1 + n2))
    IN  fSqrt(fMul(fMul(p, fSub(Num(1), p)),
                   fAdd(fDiv(Num(1), Num(n1)), fDiv(Num(1), Num(n2)))))

\* calculateZScore with the se === 0 test left out
calculateZScore_noSeGuard(x1, n1, x2, n2) ==
    IF n1 = 0 \/ n2 = 0 THEN Num(0)
    ELSE fDiv(fSub(fDiv(Num(x1), Num(n1)), fDiv(Num(x2), Num(n2))),
              pooledSE(x1, n1, x2, n2))

calculateZScore(x1, n1, x2, n2) ==
    IF n1 = 0 \/ n2 = 0 THEN Num(0)
    ELSE LET p1 == fDiv(Num(x1), Num(n1))
             p2 == fDiv(Num(x2), Num(n2))
             se == pooledSE(x1, n1, x2, n2)
         IN  IF se = Num(0) THEN Num(0) ELSE fDiv(fSub(p1, p2), se)

\* the Abramowitz and Stegun coefficients, in units of 1/SCALE
normalCDF_a1 == 2548
normalCDF_a2 == -2845
normalCDF_a3 == 14214
normalCDF_a4 == -14532
normalCDF_a5 == 10614
normalCDF_p == 3276

normalCDF(x0) ==
    LET a1 == Fin(normalCDF_a1)
        a2 == Fin(normalCDF_a2)
        a3 == Fin(normalCDF_a3)
        a4 == Fin(normalCDF_a4)
        a5 == Fin(normalCDF_a5)
        sign == IF fLt(x0, Num(0)) THEN Num(-1) ELSE Num(1)
        x == fDiv(fAbs(x0), fSqrt(Num(2)))
        t == fDiv(Num(1), fAdd(Num(1), fMul(Fin(normalCDF_p), x)))
        poly == fAdd(fMul(fAdd(fMul(fAdd(fMul(fAdd(fMul(a5, t), a4), t), a3), t), a2), t), a1)
        y == fSub(Num(1), fMul(fMul(poly, t), fExp(fNeg(fMul(x, x)))))
    IN  fMul(Fin(SCALE \div 2), fAdd(Num(1), fMul(sign, y)))

\* calculateSignificance with the zero-visitors test left out
calculateSignificance_noGuard(conversions1, visitors1, conversions2, visitors2) ==
    fMul(Num(2), fSub(Num(1),
         normalCDF(fAbs(calculateZScore(conversions1, visitors1, conversions2, visitors2)))))

\* calculateSignificance with Math.abs left out
calculateSignificance_noAbs(conversions1, visitors1, conversions2, visitors2) ==
    IF visitors1 = 0 \/ visitors2 = 0 THEN Num(1)
    ELSE fMul(Num(2), fSub(Num(1),
              normalCDF(calculateZScore(conversions1, visitors1, conversions2, visitors2))))

calculateSignificance(conversions1, visitors1, conversions2, visitors2) ==
    IF visitors1 = 0 \/ visitors2 = 0 THEN Num(1)
    ELSE LET zScore == fAbs(calculateZScore(conversions1, visitors1, conversions2, visitors2))
         IN  fMul(Num(2), fSub(Num(1), normalCDF(zScore)))

chiSquareCDF(x, df) ==
    IF fLe(x, Num(0)) THEN Num(0)
    ELSE IF df = 1 THEN fSub(fMul(Num(2), normalCDF(fSqrt(x))), Num(1))
    ELSE LET q == fDiv(x, fAdd(x, Num(df)))
         IN  IF fLt(q, Num(1)) \/ IsNaN(q) THEN q ELSE Num(1)

\* Math.pow(observed - expected, 2) / expected
chiTerm(observed, expected) ==
    LET d == fSub(Num(observed), expected)
    IN  fDiv(fMul(d, d), expected)

chiSquareTest(conversions1, visitors1, conversions2, visitors2) ==
    LET nonConversions1 == visitors1 - conversions1
        nonConversions2 == visitors2 - conversions2
        total == visitors1 + visitors2
        totalConversions == conversions1 + conversions2
        totalNonConversions == nonConversions1 + nonConversions2
        e11 == fDiv(Num(visitors1 * totalConversions), Num(total))
        e12 == fDiv(Num(visitors1 * totalNonConversions), Num(total))
        e21 == fDiv(Num(visitors2 * totalConversions), Num(total))
        e22 == fDiv(Num(visitors2 * totalNonConversions), Num(total))
        chiSquare == fAdd(fAdd(fAdd(chiTerm(conversions1, e11),
                                    chiTerm(nonConversions1, e12)),
                               chiTerm(conversions2, e21)),
                          chiTerm(nonConversions2, e22))
        pValue == fSub(Num(1), chiSquareCDF(chiSquare, 1))
    IN  [chiSquare |-> chiSquare, pValue |-> pValue,
         isSignificant |-> fLt(pValue, Fin(SCALE \div 20))]

\* Math.max(a, b) and Math.min(a, b): NaN when either side is NaN
fMax(a, b) == IF IsNaN(a) \/ IsNaN(b) THEN NaN ELSE IF fLt(a, b) THEN b ELSE a
fMin(a, b) == IF IsNaN(a) \/ IsNaN(b) THEN NaN ELSE IF fLt(b, a) THEN b ELSE a

\* Math.ceil(a)
fCeil(a) ==
    IF ~IsFinite(a) THEN a
    ELSE IF a.v % SCALE = 0 THEN a
    ELSE Fin((a.v \div SCALE + 1) * SCALE)

\* zScores[confidenceLevel] || 1.96 with
\* zScores = { 0.90: 1.645, 0.95: 1.96, 0.99: 2.576 }, and the same with the
\* fallback 1.645
getZScore_fallback90(confidenceLevel) ==
    IF confidenceLevel = Fin((9 * SCALE) \div 10) THEN Fin(16450)
    ELSE IF confidenceLevel = Fin((95 * SCALE) \div 100) THEN Fin(19600)
    ELSE IF confidenceLevel = Fin((99 * SCALE) \div 100) THEN Fin(25760)
    ELSE Fin(16450)

getZScore(confidenceLevel) ==
    IF confidenceLevel = Fin((9 * SCALE) \div 10) THEN Fin(16450)
    ELSE IF confidenceLevel = Fin((95 * SCALE) \div 100) THEN Fin(19600)
    ELSE IF confidenceLevel = Fin((99 * SCALE) \div 100) THEN Fin(25760)
    ELSE Fin(19600)

\* calculateConfidenceInterval without Math.max and Math.min
calculateConfidenceInterval_unclipped(conversions, nVisitors, confidenceLevel) ==
    LET p == fDiv(Num(conversions), Num(nVisitors))
        margin == fMul(getZScore(confidenceLevel),
                       fSqrt(fDiv(fMul(p, fSub(Num(1), p)), Num(nVisitors))))
    IN  IF nVisitors = 0 THEN [lower |-> Num(0), upper |-> Num(0)]
        ELSE [lower |-> fSub(p, margin), upper |-> fAdd(p, margin)]

\* calculateConfidenceInterval with the 0.95 z-score at every level
calculateConfidenceInterval_fixedZ(conversions, nVisitors, confidenceLevel) ==
    LET p == fDiv(Num(conversions), Num(nVisitors))
        margin == fMul(Fin(19600), fSqrt(fDiv(fMul(p, fSub(Num(1), p)), Num(nVisitors))))
    IN  IF nVisitors = 0 THEN [lower |-> Num(0), upper |-> Num(0)]
        ELSE [lower |-> fMax(Num(0), fSub(p, margin)),
              upper |-> fMin(Num(1), fAdd(p, margin))]

calculateConfidenceInterval(conversions, nVisitors, confidenceLevel) ==
    IF nVisitors = 0 THEN [lower |-> Num(0), upper |-> Num(0)]
    ELSE LET p == fDiv(Num(conversions), Num(nVisitors))
             z == getZScore(confidenceLevel)
             margin == fMul(z, fSqrt(fDiv(fMul(p, fSub(Num(1), p)), Num(nVisitors))))
         IN  [lower |-> fMax(Num(0), fSub(p, margin)),
              upper |-> fMin(Num(1), fAdd(p, margin))]

\* calculateUplift without the baselineRate === 0 test
calculateUplift_noGuard(baselineRate, testRate) ==
    fMul(fDiv(fSub(testRate, baselineRate), baselineRate), Num(100))

calculateUplift(baselineRate, testRate) ==
    IF baselineRate = Num(0)
    THEN (IF fLt(Num(0), testRate) THEN Infinity ELSE Num(0))
    ELSE fMul(fDiv(fSub(testRate, baselineRate), baselineRate), Num(100))

\* the formula of calculateSampleSize, given the two z-values
sampleSizeWithZ(baselineRate, minimumDetectableEffect, zAlpha, zBeta) ==
    LET p1 == baselineRate
        p2 == fMul(baselineRate, fAdd(Num(1), minimumDetectableEffect))
        pBar == fDiv(fAdd(p1, p2), Num(2))
        root == fAdd(fMul(zAlpha, fSqrt(fMul(fMul(Num(2), pBar), fSub(Num(1), pBar)))),
                     fMul(zBeta, fSqrt(fAdd(fMul(p1, fSub(Num(1), p1)),
                                            fMul(p2, fSub(Num(1), p2))))))
        numerator == fMul(root, root)
        denominator == fMul(fSub(p2, p1), fSub(p2, p1))
    IN  fCeil(fDiv(numerator, denominator))

\* the quantile of the standard normal distribution at 1 - tail, for the
\* tails 0.005, 0.025, 0.1, 0.2 and 0.3
normalQuantile(tail) ==
    CASE tail = Fin(SCALE \div 200) -> Fin(25758)
      [] tail = Fin(SCALE \div 40) -> Fin(19600)
      [] tail = Fin(SCALE \div 10) -> Fin(12816)
      [] tail = Fin(SCALE \div 5) -> Fin(8416)
      [] tail = Fin((3 * SCALE) \div 10) -> Fin(5244)
      [] OTHER -> Fin(19600)

\* calculateSampleSize with the z-values of alpha / 2 and beta themselves
calculateSampleSize_normalQuantiles(baselineRate, minimumDetectableEffect, alpha, beta) ==
    sampleSizeWithZ(baselineRate, minimumDetectableEffect,
                    normalQuantile(fDiv(alpha, Num(2))), normalQuantile(beta))

calculateSampleSize(baselineRate, minimumDetectableEffect, alpha, beta) ==
    sampleSizeWithZ(baselineRate, minimumDetectableEffect,
                    getZScore(fSub(Num(1), fDiv(alpha, Num(2)))),
                    getZScore(fSub(Num(1), beta)))

calculatePower(sampleSize, baselineRate, testRate, alpha) ==
    LET zAlpha == getZScore(fSub(Num(1), fDiv(alpha, Num(2))))
        pooledRate == fDiv(fAdd(baselineRate, testRate), Num(2))
        se == fSqrt(fDiv(fMul(fMul(Num(2), pooledRate), fSub(Num(1), pooledRate)),
                         Num(sampleSize)))
        effect == fAbs(fSub(testRate, baselineRate))
        zBeta == fSub(fDiv(effect, se), zAlpha)
    IN  normalCDF(zBeta)

(***************************************************************************)
(* SpecStats: the statistics utilities called on four counts.  The counts  *)
(* range over every combination up to MaxCount, malformed ones             *)
(* (conversions above exposures) included, since the utilities validate    *)
(* nothing.                                                                *)
(***************************************************************************)
MaxCount == 3

Counts == 0 .. MaxCount

\* a SampleObservation pair: conversions <= exposures on both sides
ValidObs(o) == o[1] <= o[2] /\ o[3] <= o[4]

NoCall == [fn |-> "none", val |-> NaN]

StatsIdle == obs = <<0, 0, 0, 0>> /\ ret = NoCall
AssignIdle == trafficSplit = <<>> /\ calls = <<>> /\ bucket = 0 /\ tally = <<>>
TrackIdle == visitors = <<>> /\ reqs = <<>> /\ clock = 0
NoReply == [route |-> "none", status |-> 0]
NotStarted == [pc |-> "idle"]
OthersIdle ==
    /\ rateLimitMap = <<>>
    /\ args = <<>>
    /\ sim = NotStarted
    /\ conversionRows = <<>>
    /\ convReqs = <<>>
    /\ tests = <<>>
    /\ reply = NoReply

InitStats ==
    /\ obs \in Counts \X Counts \X Counts \X Counts
    /\ ret = NoCall
    /\ AssignIdle
    /\ TrackIdle
    /\ OthersIdle

ZScoreCall ==
    /\ ret' = [fn |-> "calculateZScore",
               val |-> calculateZScore(obs[1], obs[2], obs[3], obs[4])]
    /\ UNCHANGED <<obs, trafficSplit, calls, bucket, tally, visitors, reqs, clock, others>>

SignificanceCall ==
    /\ ret' = [fn |-> "calculateSignificance",
               val |-> calculateSignificance(obs[1], obs[2], obs[3], obs[4])]
    /\ UNCHANGED <<obs, trafficSplit, calls, bucket, tally, visitors, reqs, clock, others>>

ChiSquareCall ==
    /\ ret' = [fn |-> "chiSquareTest",
               val |-> chiSquareTest(obs[1], obs[2], obs[3], obs[4])]
    /\ UNCHANGED <<obs, trafficSplit, calls, bucket, tally, visitors, reqs, clock, others>>

NextStats == ZScoreCall \/ SignificanceCall \/ ChiSquareCall

SpecStats == InitStats /\ [][NextStats]_vars

\* C7: calculateSignificance returns exactly 1 whenever either exposure count
\* is 0, whatever the two conversion counts and the other exposure count are.
C7_SignificanceIsOneOnZeroExposure ==
    (ret.fn = "calculateSignificance" /\ (obs[2] = 0 \/ obs[4] = 0))
        => ret.val = Num(1)

\* a call with exactly one zero exposure count and conversions on both sides
C7_Witness ==
    /\ ret.fn = "calculateSignificance"
    /\ obs[2] = 0 /\ obs[4] > 0 /\ obs[1] > 0 /\ obs[3] > 0
    /\ ret.val = Num(1)

\* C8: calculateZScore returns the number 0 whenever either exposure count is
\* 0 or the pooled standard error is 0, which is when the pooled proportion
\* is 0 or 1; in every other case it returns (p1 - p2) / se.
C8_ZScoreZeroOrQuotient ==
    ret.fn = "calculateZScore" =>
        LET x1 == obs[1]
            n1 == obs[2]
            x2 == obs[3]
            n2 == obs[4]
        IN  IF n1 = 0 \/ n2 = 0 \/ x1 + x2 = 0 \/ x1 + x2 = n1 + n2
            THEN ret.val = Num(0)
            ELSE /\ pooledSE(x1, n1, x2, n2) # Num(0)
                 /\ ret.val = fDiv(fSub(fDiv(Num(x1), Num(n1)), fDiv(Num(x2), Num(n2))),
                                   pooledSE(x1, n1, x2, n2))

\* a call with both exposures positive and a pooled proportion of 1
C8_Witness ==
    /\ ret.fn = "calculateZScore"
    /\ obs[2] > 0 /\ obs[4] > 0
    /\ obs[1] = obs[2] /\ obs[3] = obs[4]
    /\ ret.val = Num(0)

\* C9: calculateSignificance(a, n, b, m) equals calculateSignificance(b, m, a, n)
\* for all observations (a, n) and (b, m).
C9_SignificanceSymmetric ==
    (ret.fn = "calculateSignificance" /\ ValidObs(obs)) =>
        /\ ~IsNaN(ret.val)
        /\ ret.val = calculateSignificance(obs[3], obs[4], obs[1], obs[2])

\* a call on two different samples whose rates differ, with a p-value below 1
C9_Witness ==
    /\ ret.fn = "calculateSignificance"
    /\ ValidObs(obs)
    /\ obs[1] * obs[4] < obs[3] * obs[2]
    /\ obs[2] # obs[4]
    /\ fLt(ret.val, Fin(SCALE \div 2))

\* the floating tolerance of the comparisons, 0.002
Close(a, b) == IsFinite(a) /\ IsFinite(b) /\ Mag(a.v - b.v) <= SCALE \div 500

\* C10: for every 2x2 table of valid observations, chiSquareTest(...).pValue
\* equals calculateSignificance(...) on the same counts, within tolerance.
C10_ChiSquareMatchesSignificance ==
    (ret.fn = "chiSquareTest" /\ ValidObs(obs)) =>
        Close(ret.val.pValue, calculateSignificance(obs[1], obs[2], obs[3], obs[4]))

\* the same on tables in which every expected frequency is positive: both
\* exposures positive, some visitor converted and some visitor did not
C10_MatchesOnNonDegenerate ==
    (/\ ret.fn = "chiSquareTest"
     /\ ValidObs(obs)
     /\ obs[2] > 0 /\ obs[4] > 0
     /\ obs[1] + obs[3] > 0
     /\ obs[1] + obs[3] < obs[2] + obs[4]) =>
        Close(ret.val.pValue, calculateSignificance(obs[1], obs[2], obs[3], obs[4]))

\* a number in [0, 1]
IsUnitNumber(a) == IsFinite(a) /\ a.v >= 0 /\ a.v <= SCALE

\* C11: for every pair of valid observations, degenerate tables included,
\* chiSquareTest returns a pValue that is a number in [0, 1], and
\* isSignificant is true exactly when pValue < 0.05.
C11_ChiSquareReturnsProbability ==
    (ret.fn = "chiSquareTest" /\ ValidObs(obs)) =>
        /\ IsUnitNumber(ret.val.pValue)
        /\ ret.val.isSignificant <=> fLt(ret.val.pValue, Fin(SCALE \div 20))

\* the same on tables in which every expected frequency is positive
C11_ProbabilityOnNonDegenerate ==
    (/\ ret.fn = "chiSquareTest"
     /\ ValidObs(obs)
     /\ obs[2] > 0 /\ obs[4] > 0
     /\ obs[1] + obs[3] > 0
     /\ obs[1] + obs[3] < obs[2] + obs[4]) =>
        /\ IsUnitNumber(ret.val.pValue)
        /\ ret.val.isSignificant <=> fLt(ret.val.pValue, Fin(SCALE \div 20))

(***************************************************************************)
(* SpecRates: the utilities that take a confidence level or conversion     *)
(* rates, called on any of the inputs below.  args holds the arguments of  *)
(* the last call and ret what it returned.                                 *)
(***************************************************************************)

\* confidence levels: 0.90, 0.95, 0.99, two unsupported ones and NaN
Levels == {Fin((9 * SCALE) \div 10), Fin((95 * SCALE) \div 100), Fin((99 * SCALE) \div 100),
           Fin((8 * SCALE) \div 10), Fin((975 * SCALE) \div 1000), NaN}

\* conversion rates in [0, 1]: 0, 0.05, 0.1, 0.5, 0.9, 1
Rates == {Fin(0), Fin(SCALE \div 20), Fin(SCALE \div 10), Fin(SCALE \div 2),
          Fin((9 * SCALE) \div 10), Fin(SCALE)}

\* minimum detectable effects: -0.5, 0, 0.2, 0.5, 1
Effects == {Fin(-(SCALE \div 2)), Fin(0), Fin(SCALE \div 5), Fin(SCALE \div 2), Fin(SCALE)}

\* alpha: the default 0.05, 0.2 and 0.01; beta: the default 0.20, 0.1 and 0.3
Alphas == {Fin(SCALE \div 20), Fin(SCALE \div 5), Fin(SCALE \div 100)}
Betas == {Fin(SCALE \div 5), Fin(SCALE \div 10), Fin((3 * SCALE) \div 10)}

\* sample sizes per variation
SampleSizes == {0, 1, 100}

InitRates ==
    /\ rateLimitMap = <<>>
    /\ args = <<>>
    /\ ret = NoCall
    /\ obs = <<0, 0, 0, 0>>
    /\ AssignIdle
    /\ TrackIdle
    /\ sim = NotStarted
    /\ conversionRows = <<>>
    /\ convReqs = <<>>
    /\ tests = <<>>
    /\ reply = NoReply

GetZScoreCall(confidenceLevel) ==
    /\ args' = [confidenceLevel |-> confidenceLevel]
    /\ ret' = [fn |-> "getZScore", val |-> getZScore(confidenceLevel)]
    /\ UNCHANGED <<obs, trafficSplit, calls, bucket, tally, visitors, reqs, clock,
                   sim, conversionRows, convReqs, tests, reply, rateLimitMap>>

ConfidenceIntervalCall(c, n, confidenceLevel) ==
    /\ args' = [conversions |-> c, visitors |-> n, confidenceLevel |-> confidenceLevel]
    /\ ret' = [fn |-> "calculateConfidenceInterval",
               val |-> calculateConfidenceInterval(c, n, confidenceLevel)]
    /\ UNCHANGED <<obs, trafficSplit, calls, bucket, tally, visitors, reqs, clock,
                   sim, conversionRows, convReqs, tests, reply, rateLimitMap>>

UpliftCall(baselineRate, testRate) ==
    /\ args' = [baselineRate |-> baselineRate, testRate |-> testRate]
    /\ ret' = [fn |-> "calculateUplift", val |-> calculateUplift(baselineRate, testRate)]
    /\ UNCHANGED <<obs, trafficSplit, calls, bucket, tally, visitors, reqs, clock,
                   sim, conversionRows, convReqs, tests, reply, rateLimitMap>>

SampleSizeCall(baselineRate, minimumDetectableEffect, alpha, beta) ==
    /\ args' = [baselineRate |-> baselineRate,
                minimumDetectableEffect |-> minimumDetectableEffect,
                alpha |-> alpha, beta |-> beta]
    /\ ret' = [fn |-> "calculateSampleSize",
               val |-> calculateSampleSize(baselineRate, minimumDetectableEffect, alpha, beta)]
    /\ UNCHANGED <<obs, trafficSplit, calls, bucket, tally, visitors, reqs, clock,
                   sim, conversionRows, convReqs, tests, reply, rateLimitMap>>

PowerCall(sampleSize, baselineRate, testRate, alpha) ==
    /\ args' = [sampleSize |-> sampleSize, baselineRate |-> baselineRate,
                testRate |-> testRate, alpha |-> alpha]
    /\ ret' = [fn |-> "calculatePower",
               val |-> calculatePower(sampleSize, baselineRate, testRate, alpha)]
    /\ UNCHANGED <<obs, trafficSplit, calls, bucket, tally, visitors, reqs, clock,
                   sim, conversionRows, convReqs, tests, reply, rateLimitMap>>

NextRates ==
    \/ \E confidenceLevel \in Levels : GetZScoreCall(confidenceLevel)
    \/ \E c \in Counts, n \in Counts, confidenceLevel \in Levels :
          ConfidenceIntervalCall(c, n, confidenceLevel)
    \/ \E baselineRate \in Rates, testRate \in Rates : UpliftCall(baselineRate, testRate)
    \/ \E baselineRate \in Rates, minimumDetectableEffect \in Effects,
          alpha \in Alphas, beta \in Betas :
          SampleSizeCall(baselineRate, minimumDetectableEffect, alpha, beta)
    \/ \E sampleSize \in SampleSizes, baselineRate \in Rates, testRate \in Rates,
          alpha \in Alphas : PowerCall(sampleSize, baselineRate, testRate, alpha)

SpecRates == InitRates /\ [][NextRates]_vars

\* upper - lower of an interval
Width(interval) == fSub(interval.upper, interval.lower)

Level90 == Fin((9 * SCALE) \div 10)
Level95 == Fin((95 * SCALE) \div 100)
Level99 == Fin((99 * SCALE) \div 100)

\* C12: for every conversions <= exposures and every confidence level,
\* calculateConfidenceInterval returns 0 <= lower <= upper <= 1, and
\* {lower: 0, upper: 0} when exposures is 0.
C12_IntervalWithinUnit ==
    (ret.fn = "calculateConfidenceInterval" /\ args.conversions <= args.visitors) =>
        /\ IsFinite(ret.val.lower) /\ IsFinite(ret.val.upper)
        /\ 0 <= ret.val.lower.v
        /\ ret.val.lower.v <= ret.val.upper.v
        /\ ret.val.upper.v <= SCALE
        /\ args.visitors = 0 => ret.val = [lower |-> Num(0), upper |-> Num(0)]

\* an interval Math.min clipped at 1 whose lower end is inside (0, 1)
C12_Witness ==
    /\ ret.fn = "calculateConfidenceInterval"
    /\ args.conversions < args.visitors
    /\ ret.val.lower.v > 0
    /\ ret.val.upper = Num(1)
    /\ fLt(Num(1), calculateConfidenceInterval_unclipped(
                       args.conversions, args.visitors, args.confidenceLevel).upper)

\* C13 as stated: for every (c, n) with c <= n the interval at 0.99 is wider
\* (upper - lower is larger) than the interval at 0.90.
C13_WiderAt99 ==
    (/\ ret.fn = "calculateConfidenceInterval"
     /\ args.conversions <= args.visitors
     /\ args.confidenceLevel = Level99) =>
        fLt(Width(calculateConfidenceInterval(args.conversions, args.visitors, Level90)),
            Width(ret.val))

\* C13: for every (c, n) with c <= n the interval at 0.99 is at least as
\* wide as the interval at 0.90, and it is wider when 0 < c < n and the
\* interval at 0.90 is not all of [0, 1].
C13_NotNarrowerAt99 ==
    (/\ ret.fn = "calculateConfidenceInterval"
     /\ args.conversions <= args.visitors
     /\ args.confidenceLevel = Level99) =>
        LET at90 == calculateConfidenceInterval(args.conversions, args.visitors, Level90)
        IN  /\ fLe(Width(at90), Width(ret.val))
            /\ (/\ 0 < args.conversions
                /\ args.conversions < args.visitors
                /\ fLt(Width(at90), Num(1))) => fLt(Width(at90), Width(ret.val))

\* the interval at 0.99 of some 0 < c < n, wider than the one at 0.90
C13_Witness ==
    /\ ret.fn = "calculateConfidenceInterval"
    /\ args.confidenceLevel = Level99
    /\ 0 < args.conversions
    /\ args.conversions < args.visitors
    /\ fLt(Width(calculateConfidenceInterval(args.conversions, args.visitors, Level90)),
           Width(ret.val))

\* C14: getZScore returns 1.645, 1.96 and 2.576 for the levels 0.90, 0.95
\* and 0.99 and 1.96 for every other level, so calculateConfidenceInterval
\* with an unsupported level returns the interval of 0.95.
C14_ZScoreTableWithFallback ==
    /\ ret.fn = "getZScore" =>
          ret.val = CASE args.confidenceLevel = Level90 -> Fin(16450)
                      [] args.confidenceLevel = Level95 -> Fin(19600)
                      [] args.confidenceLevel = Level99 -> Fin(25760)
                      [] OTHER -> Fin(19600)
    /\ (/\ ret.fn = "calculateConfidenceInterval"
        /\ args.confidenceLevel \notin {Level90, Level95, Level99}) =>
          ret.val = calculateConfidenceInterval(args.conversions, args.visitors, Level95)

\* getZScore was called with a level outside the table
C14_Witness ==
    /\ ret.fn = "getZScore"
    /\ args.confidenceLevel \notin {Level90, Level95, Level99}
    /\ ret.val = Fin(19600)

\* 100 * (t - b) / b for rates t and b # 0 given in units of 1/SCALE, computed
\* in integers and rounded down to 1/SCALE
UpliftQuotient(b, t) ==
    LET x == (t - b) * 100
    IN  (x \div b) * SCALE + ((x % b) * SCALE) \div b

\* C15: calculateUplift returns 100 * (testRate - baselineRate) / baselineRate
\* (within 0.01) when baselineRate is not 0, +Infinity when baselineRate is 0
\* and testRate is positive, and 0 when both are 0.
C15_UpliftCases ==
    ret.fn = "calculateUplift" =>
        LET b == args.baselineRate.v
            t == args.testRate.v
        IN  IF b # 0
            THEN /\ IsFinite(ret.val)
                 /\ Mag(ret.val.v - UpliftQuotient(b, t)) <= SCALE \div 100
            ELSE IF t > 0 THEN ret.val = Infinity
            ELSE ret.val = Num(0)

\* calculateUplift was called with a zero baseline and a positive test rate
C15_Witness ==
    /\ ret.fn = "calculateUplift"
    /\ args.baselineRate = Num(0)
    /\ fLt(Num(0), args.testRate)
    /\ ret.val = Infinity

\* a positive integer
IsPositiveInteger(a) == IsFinite(a) /\ a.v > 0 /\ a.v % SCALE = 0

\* C16: calculateSampleSize returns a positive integer for every baselineRate
\* in (0, 1) and every minimumDetectableEffect.
C16_SampleSizePositiveInteger ==
    (/\ ret.fn = "calculateSampleSize"
     /\ fLt(Num(0), args.baselineRate)
     /\ fLt(args.baselineRate, Num(1))) => IsPositiveInteger(ret.val)

\* the same when the effect is not 0 and the raised rate
\* baselineRate * (1 + minimumDetectableEffect) is in (0, 1]
C16_PositiveIntegerOnRaisedRates ==
    (/\ ret.fn = "calculateSampleSize"
     /\ fLt(Num(0), args.baselineRate)
     /\ fLt(args.baselineRate, Num(1))
     /\ args.minimumDetectableEffect # Num(0)
     /\ LET p2 == fMul(args.baselineRate, fAdd(Num(1), args.minimumDetectableEffect))
        IN  fLt(Num(0), p2) /\ fLe(p2, Num(1))) => IsPositiveInteger(ret.val)

\* C17: calculatePower returns a value in [0, 1] for every sample size and
\* every pair of rates in [0, 1], zero pooled variance included.
C17_PowerWithinUnit ==
    ret.fn = "calculatePower" => IsUnitNumber(ret.val)

\* the same when the pooled variance is positive
C17_WithinUnitOnPositiveVariance ==
    (/\ ret.fn = "calculatePower"
     /\ LET pooled == fAdd(args.baselineRate, args.testRate)
        IN  fLt(Num(0), pooled) /\ fLt(pooled, Num(2))) => IsUnitNumber(ret.val)

\* neither 1 - alpha / 2 nor 1 - beta is a key of getZScore's table
OutsideZTable(alpha, beta) ==
    /\ fSub(Num(1), fDiv(alpha, Num(2))) \notin {Level90, Level95, Level99}
    /\ fSub(Num(1), beta) \notin {Level90, Level95, Level99}

\* C25: for every alpha and beta for which neither 1 - alpha / 2 nor 1 - beta
\* is 0.90, 0.95 or 0.99, calculateSampleSize returns the value of its
\* formula with both z terms 1.96, whatever alpha and beta are.
C25_SampleSizeIgnoresAlphaBeta ==
    (ret.fn = "calculateSampleSize" /\ OutsideZTable(args.alpha, args.beta))
        => ret.val = sampleSizeWithZ(args.baselineRate, args.minimumDetectableEffect,
                                     Fin(19600), Fin(19600))

\* a call with alpha = 0.01 and beta = 0.3 has returned the sample size of
\* the defaults
C25_Witness ==
    /\ ret.fn = "calculateSampleSize"
    /\ args.alpha = Fin(SCALE \div 100)
    /\ args.beta = Fin((3 * SCALE) \div 10)
    /\ OutsideZTable(args.alpha, args.beta)
    /\ IsPositiveInteger(ret.val)
    /\ ret.val = calculateSampleSize(args.baselineRate, args.minimumDetectableEffect,
                                     Fin(SCALE \div 20), Fin(SCALE \div 5))

(***************************************************************************)
(* SpecBayes: bayesianProbability, one round of its loop at a time.  The   *)
(* random number generator is a stream fixed by its seed when the call     *)
(* starts; the streams below stand for the generator's possible outputs,   *)
(* the constant stream (every sample of A equal to B's) among them.        *)
(***************************************************************************)

\* const numSamples = 10000
numSamples == 10000

Seeds == {0, 1, 2}

\* the k-th candidate v = (1 + c * normalRandom())^3 that gammaRandom accepts
\* under a seed: a positive number, in units of 1/SCALE
\* (which numbers the generator yields, and how often, is not modelled:
\* a seed fixes one stream of accepted candidates)
acceptedV(seed, k) ==
    IF seed = 0 THEN SCALE
    ELSE ((seed * (7 * k + 3) + ((k * k) % 9973)) % 29989) + 1

\* gammaRandom(shape, 1) for a whole shape, given the candidate it accepts:
\* d * v for shape >= 1, and gammaRandom(1, 1) * Math.pow(Math.random(), 1 / 0)
\* = 0 for shape 0
gammaRandom(shape, v) ==
    IF shape < 1 THEN Num(0)
    ELSE LET d == fSub(Num(shape), fDiv(Num(1), Num(3)))
         IN  fMul(d, Fin(v))

\* betaRandom(alpha, beta) on the candidates vx and vy
betaRandom(alpha, beta, vx, vy) ==
    LET x == gammaRandom(alpha, vx)
        y == gammaRandom(beta, vy)
    IN  fDiv(x, fAdd(x, y))

\* sampleA and sampleB of round i (from 0) of the loop
sampleA(s, i) == betaRandom(s.alphaA, s.betaA, acceptedV(s.seed, 4 * i + 1), acceptedV(s.seed, 4 * i + 2))
sampleB(s, i) == betaRandom(s.alphaB, s.betaB, acceptedV(s.seed, 4 * i + 3), acceptedV(s.seed, 4 * i + 4))

\* the round with >= for >
bWinsAfter_orEqual(bWins, a, b) == IF fLe(a, b) THEN bWins + 1 ELSE bWins

\* if (sampleB > sampleA) bWins++
bWinsAfter(bWins, a, b) == IF fLt(a, b) THEN bWins + 1 ELSE bWins

\* the tables bayesianProbability is called on, and the priors: the default
\* (1, 1) and (0, 0)
BayesTables == {<<0, 0, 0, 0>>, <<1, 2, 1, 3>>, <<0, 3, 3, 3>>}
Priors == {<<1, 1>>, <<0, 0>>}

InitBayes ==
    /\ rateLimitMap = <<>>
    /\ obs \in BayesTables
    /\ ret = NoCall
    /\ sim = NotStarted
    /\ args = <<>>
    /\ AssignIdle
    /\ TrackIdle
    /\ conversionRows = <<>>
    /\ convReqs = <<>>
    /\ tests = <<>>
    /\ reply = NoReply

\* the call, up to the loop
BayesCall(priorAlpha, priorBeta, seed) ==
    /\ sim.pc = "idle"
    /\ args' = [priorAlpha |-> priorAlpha, priorBeta |-> priorBeta]
    /\ sim' = [pc |-> "loop", seed |-> seed,
               alphaA |-> priorAlpha + obs[1],
               betaA |-> priorBeta + obs[2] - obs[1],
               alphaB |-> priorAlpha + obs[3],
               betaB |-> priorBeta + obs[4] - obs[3],
               i |-> 0, bWins |-> 0]
    /\ UNCHANGED <<obs, ret, trafficSplit, calls, bucket, tally, visitors, reqs, clock,
                   conversionRows, convReqs, tests, reply, rateLimitMap>>

\* one round of the loop
BayesDraw ==
    /\ sim.pc = "loop"
    /\ sim.i < numSamples
    /\ sim' = [sim EXCEPT !.i = sim.i + 1,
                          !.bWins = bWinsAfter(sim.bWins, sampleA(sim, sim.i), sampleB(sim, sim.i))]
    /\ UNCHANGED <<obs, ret, args, trafficSplit, calls, bucket, tally, visitors, reqs, clock,
                   conversionRows, convReqs, tests, reply, rateLimitMap>>

\* return bWins / numSamples
BayesReturn ==
    /\ sim.pc = "loop"
    /\ sim.i >= numSamples
    /\ sim' = [sim EXCEPT !.pc = "returned"]
    /\ ret' = [fn |-> "bayesianProbability", val |-> fDiv(Num(sim.bWins), Num(numSamples))]
    /\ UNCHANGED <<obs, args, trafficSplit, calls, bucket, tally, visitors, reqs, clock,
                   conversionRows, convReqs, tests, reply, rateLimitMap>>

NextBayes ==
    \/ \E prior \in Priors, seed \in Seeds : BayesCall(prior[1], prior[2], seed)
    \/ BayesDraw
    \/ BayesReturn

SpecBayes == InitBayes /\ [][NextBayes]_vars

\* the rounds of the whole loop in which B's sample is strictly greater
RoundsWonByB(s) == {i \in 0 .. (numSamples - 1) : fLt(sampleA(s, i), sampleB(s, i))}

\* C18: bayesianProbability draws exactly 10,000 pairs of samples, one from
\* Beta(priorAlpha + conversionsA, priorBeta + exposuresA - conversionsA) and
\* one from Beta(priorAlpha + conversionsB, priorBeta + exposuresB -
\* conversionsB), and returns the number of pairs in which B's sample is
\* strictly greater than A's divided by 10,000, a value in [0, 1].
C18_FractionOfRoundsWonByB ==
    /\ sim.pc # "idle" =>
          /\ sim.alphaA = args.priorAlpha + obs[1]
          /\ sim.betaA = args.priorBeta + obs[2] - obs[1]
          /\ sim.alphaB = args.priorAlpha + obs[3]
          /\ sim.betaB = args.priorBeta + obs[4] - obs[3]
          /\ 0 <= sim.bWins /\ sim.bWins <= sim.i /\ sim.i <= 10000
    /\ sim.pc = "returned" =>
          /\ sim.i = 10000
          /\ sim.bWins = Cardinality(RoundsWonByB(sim))
          /\ ret.val = Fin((sim.bWins * SCALE) \div 10000)
          /\ IsUnitNumber(ret.val)

\* a call returned after B won some rounds and lost others
C18_Witness ==
    /\ sim.pc = "returned"
    /\ ret.fn = "bayesianProbability"
    /\ sim.bWins > 0
    /\ sim.bWins < 10000

(***************************************************************************)
(* Strings are sequences of character codes.                               *)
(***************************************************************************)
LabelA == <<65>>
LabelB == <<66>>
Label1 == <<49>>
LabelZ == <<90>>

\* "u3" and "u4"
UserIds == {<<117, 51>>, <<117, 52>>}

\* "00000000-0000-4000-8000-00000000000c" for a last character c
UuidEnding(c) ==
    [i \in 1 .. 36 |->
        IF i \in {9, 14, 19, 24} THEN 45
        ELSE IF i = 15 THEN 52
        ELSE IF i = 20 THEN 56
        ELSE IF i = 36 THEN c
        ELSE 48]

Test1 == UuidEnding(49)
Test2 == UuidEnding(50)
Test3 == UuidEnding(51)
MissingTest == UuidEnding(57)
TestIds == {Test1, Test2}

(***************************************************************************)
(* The assignment helper                                                   *)
(***************************************************************************)

\* crypto.createHash('md5').update(s).digest('hex').substring(0, 8) as its
\* eight hexadecimal digits, tabulated for the strings that are hashed here:
\* MD5 of "u3" and "u4" followed by each test id
md5Prefix ==
    (<<117, 51>> \o Test1 :> <<9, 4, 6, 9, 0, 4, 13, 14>>) @@
    (<<117, 51>> \o Test2 :> <<6, 1, 13, 4, 15, 11, 5, 11>>) @@
    (<<117, 52>> \o Test1 :> <<12, 15, 2, 2, 4, 8, 9, 13>>) @@
    (<<117, 52>> \o Test2 :> <<6, 11, 15, 8, 13, 8, 12, 15>>)

\* a hash that also takes in how many calls came before, as a digest of
\* userId + testId + a per-call salt would
generateUserHash_perCall(userId, testId) ==
    [i \in 1 .. 8 |-> (md5Prefix[userId \o testId][i] + Len(calls)) % 16]

\* the number parseInt(hash.substring(0, 8), 16), held as its eight digits
generateUserHash(userId, testId) == md5Prefix[userId \o testId]

\* (the number with hexadecimal digits d) % m
RECURSIVE HexMod(_, _)
HexMod(d, m) ==
    IF d = <<>> THEN 0
    ELSE (HexMod(SubSeq(d, 1, Len(d) - 1), m) * 16 + d[Len(d)]) % m

IsDigit(c) == c >= 48 /\ c <= 57

\* a <= b for digit strings of one length
DigitsLeq(a, b) ==
    a = b \/ \E i \in 1 .. Len(a) :
                a[i] < b[i] /\ \A j \in 1 .. (i - 1) : a[j] = b[j]

\* an integer-like property key: the canonical decimal form of an integer
\* in 0 .. 2^32 - 2
IsArrayIndex(key) ==
    /\ Len(key) >= 1
    /\ Len(key) <= 10
    /\ \A i \in 1 .. Len(key) : IsDigit(key[i])
    /\ (Len(key) = 1 \/ key[1] # 48)
    /\ (Len(key) = 10 => DigitsLeq(key, <<52, 50, 57, 52, 57, 54, 55, 50, 57, 52>>))

IndexLess(a, b) == Len(a) < Len(b) \/ (Len(a) = Len(b) /\ a # b /\ DigitsLeq(a, b))

RECURSIVE Ascending(_)
Ascending(S) ==
    IF S = {} THEN <<>>
    ELSE LET m == CHOOSE x \in S : \A y \in S : x = y \/ IndexLess(x, y)
         IN  <<m>> \o Ascending(S \ {m})

DeclaredKeys(split) == [i \in 1 .. Len(split) |-> split[i][1]]

IsNotArrayIndex(key) == ~IsArrayIndex(key)

\* the keys of the object written as split, in the order the object
\* enumerates them: integer-like keys ascending, then the others as written
ObjectKeys(split) ==
    Ascending({split[i][1] : i \in {j \in 1 .. Len(split) : IsArrayIndex(split[j][1])}})
        \o SelectSeq(DeclaredKeys(split), IsNotArrayIndex)

ValueOf(split, key) ==
    split[CHOOSE i \in 1 .. Len(split) :
            split[i][1] = key /\ \A j \in (i + 1) .. Len(split) : split[j][1] # key][2]

ObjectEntries(split) ==
    LET keys == ObjectKeys(split)
    IN  [i \in 1 .. Len(keys) |-> <<keys[i], ValueOf(split, keys[i])>>]

\* Object.keys(trafficSplit)[0] || 'A'
fallbackVariation(split) ==
    LET keys == ObjectKeys(split)
    IN  IF keys = <<>> \/ keys[1] = <<>> THEN LabelA ELSE keys[1]

\* the loop of assignVariation with <= for <
RECURSIVE walkInclusive(_, _, _, _, _)
walkInclusive(split, entries, i, cumulative, percentage) ==
    IF i > Len(entries) THEN fallbackVariation(split)
    ELSE IF percentage <= cumulative + entries[i][2] THEN entries[i][1]
    ELSE walkInclusive(split, entries, i + 1, cumulative + entries[i][2], percentage)

\* the loop of assignVariation from entry i on: the first entry whose
\* cumulative traffic is above percentage, and the fallback when it runs out
RECURSIVE walk(_, _, _, _, _)
walk(split, entries, i, cumulative, percentage) ==
    IF i > Len(entries) THEN fallbackVariation(split)
    ELSE IF percentage < cumulative + entries[i][2] THEN entries[i][1]
    ELSE walk(split, entries, i + 1, cumulative + entries[i][2], percentage)

variationForPercentage_inclusive(percentage, split) ==
    walkInclusive(split, ObjectEntries(split), 1, 0, percentage)

\* assignVariation from its percentage on
variationForPercentage(percentage, split) ==
    walk(split, ObjectEntries(split), 1, 0, percentage)

\* the number of bucket values: hash % 100
Buckets == 100

percentageOf(userId, testId) == HexMod(generateUserHash(userId, testId), Buckets)

assignVariation(userId, testId, split) ==
    variationForPercentage(percentageOf(userId, testId), split)

(***************************************************************************)
(* SpecAssign: assignVariation called up to MaxCalls times on one traffic  *)
(* split, for any visitors and tests in any order.  The split is any       *)
(* declaration of up to MaxVariations distinct labels, well-formed or not. *)
(***************************************************************************)
MaxVariations == 2
MaxCalls == 3

Labels == {LabelA, LabelB, Label1}
Percentages == {-20, 0, 30, 70, 100}

Splits ==
    UNION {{sp \in [1 .. n -> Labels \X Percentages] :
                \A i, j \in 1 .. n : sp[i][1] = sp[j][1] => i = j}
           : n \in 1 .. MaxVariations}

InitAssign ==
    /\ StatsIdle
    /\ trafficSplit \in Splits
    /\ calls = <<>>
    /\ bucket = 0
    /\ tally = <<>>
    /\ TrackIdle
    /\ OthersIdle

AssignVariationCall(userId, testId) ==
    /\ Len(calls) < MaxCalls
    /\ calls' = Append(calls, [userId |-> userId, testId |-> testId,
                               variation |-> assignVariation(userId, testId, trafficSplit)])
    /\ UNCHANGED <<obs, ret, trafficSplit, bucket, tally, visitors, reqs, clock, others>>

NextAssign == \E userId \in UserIds, testId \in TestIds : AssignVariationCall(userId, testId)

SpecAssign == InitAssign /\ [][NextAssign]_vars

\* the sum of the first k declared percentages
RECURSIVE DeclaredCumulative(_, _)
DeclaredCumulative(split, k) ==
    IF k = 0 THEN 0 ELSE DeclaredCumulative(split, k - 1) + split[k][2]

\* the first declared entry whose cumulative total is above b, or 0
FirstAbove(split, b) ==
    IF \E k \in 1 .. Len(split) : DeclaredCumulative(split, k) > b
    THEN CHOOSE k \in 1 .. Len(split) :
            /\ DeclaredCumulative(split, k) > b
            /\ \A j \in 1 .. (k - 1) : DeclaredCumulative(split, j) <= b
    ELSE 0

NoIndexLabels(split) == \A i \in 1 .. Len(split) : ~IsArrayIndex(split[i][1])

C2_WalksDeclaredOrder ==
    \A i \in 1 .. Len(calls) :
        LET b == percentageOf(calls[i].userId, calls[i].testId)
            k == FirstAbove(trafficSplit, b)
        IN  /\ b \in 0 .. 99
            /\ k # 0 => calls[i].variation = trafficSplit[k][1]

\* the same for splits none of whose labels is integer-like
C2_WalksDeclaredOrderOfNames ==
    NoIndexLabels(trafficSplit) => C2_WalksDeclaredOrder

\* C4: for every non-empty split, however malformed, the label returned is a
\* label of the split, and it is the first declared label when no entry's
\* cumulative total is above the bucket.
C4_LabelOfSplitOrFirstDeclared ==
    \A i \in 1 .. Len(calls) :
        LET b == percentageOf(calls[i].userId, calls[i].testId)
        IN  /\ \E k \in 1 .. Len(trafficSplit) : calls[i].variation = trafficSplit[k][1]
            /\ FirstAbove(trafficSplit, b) = 0 => calls[i].variation = trafficSplit[1][1]

\* the same for splits none of whose labels is integer-like
C4_FirstDeclaredOfNames ==
    NoIndexLabels(trafficSplit) => C4_LabelOfSplitOrFirstDeclared

(***************************************************************************)
(* SpecBuckets: a population with one visitor per bucket value, assigned   *)
(* bucket by bucket under one traffic split.                               *)
(***************************************************************************)
InitBuckets ==
    /\ StatsIdle
    /\ trafficSplit \in Splits
    /\ calls = <<>>
    /\ bucket = 0
    /\ tally = [l \in Labels |-> 0]
    /\ TrackIdle
    /\ OthersIdle

AssignBucket ==
    /\ bucket < Buckets
    /\ tally' = [tally EXCEPT ![variationForPercentage(bucket, trafficSplit)] = @ + 1]
    /\ bucket' = bucket + 1
    /\ UNCHANGED <<obs, ret, trafficSplit, calls, visitors, reqs, clock, others>>

NextBuckets == AssignBucket

SpecBuckets == InitBuckets /\ [][NextBuckets]_vars

RECURSIVE SumOf(_, _)
SumOf(split, k) == IF k = 0 THEN 0 ELSE SumOf(split, k - 1) + split[k][2]

WellFormed(split) ==
    /\ \A i \in 1 .. Len(split) : split[i][2] >= 0
    /\ SumOf(split, Len(split)) = 100

\* C3: under a split of non-negative integer percentages summing to 100,
\* exactly percentage(L) of the 100 bucket values 0..99 are assigned to each
\* label L of the split.
C3_Proportional ==
    (bucket = Buckets /\ WellFormed(trafficSplit)) =>
        \A i \in 1 .. Len(trafficSplit) :
            tally[trafficSplit[i][1]] = trafficSplit[i][2]

\* every bucket assigned under a 30/70 split whose second label is integer-like
C3_Witness ==
    /\ bucket = Buckets
    /\ trafficSplit = <<<<LabelB, 30>>, <<Label1, 70>>>>
    /\ tally[LabelB] = 30 /\ tally[Label1] = 70 /\ tally[LabelA] = 0

(***************************************************************************)
(* The tracking script: the assignment made in the browser                 *)
(***************************************************************************)

\* a 32-bit hash as its <<high, low>> 16-bit halves
IsInt32(h) == h[1] \in 0 .. 65535 /\ h[2] \in 0 .. 65535

\* the loop of hashCode from character i on; one round is
\* hash = ((hash << 5) - hash) + char; hash = hash & hash
RECURSIVE hashCodeFrom(_, _, _)
hashCodeFrom(str, i, hash) ==
    IF i > Len(str) \/ ~IsInt32(hash) THEN hash
    ELSE LET low == 31 * hash[2] + str[i]
         IN  hashCodeFrom(str, i + 1,
                          <<(31 * hash[1] + low \div 65536) % 65536, low % 65536>>)

hashCode(str) == hashCodeFrom(str, 1, <<0, 0>>)

\* Math.abs(hash) % 100 for the signed 32-bit hash held as <<high, low>>
absMod100(h) ==
    LET unsigned == ((h[1] % 100) * 36 + h[2]) % 100
    IN  IF h[1] < 32768 THEN unsigned ELSE (96 - unsigned) % 100

\* the for-in loop of the script: the first key whose cumulative traffic is
\* above percentage; currentVariation stays undefined (<<>>) when none is
RECURSIVE scriptWalk(_, _, _, _)
scriptWalk(entries, i, cumulative, percentage) ==
    IF i > Len(entries) THEN <<>>
    ELSE IF percentage < cumulative + entries[i][2] THEN entries[i][1]
    ELSE scriptWalk(entries, i + 1, cumulative + entries[i][2], percentage)

\* ABTesting.assignVariation: this.currentVariation after the call
scriptAssignVariation(userId, config) ==
    LET percentage == absMod100(hashCode(userId \o config.id))
    IN  scriptWalk(ObjectEntries(config.trafficSplit), 1, 0, percentage)

(***************************************************************************)
(* SpecTrack: POST /track/visitor.  Up to MaxRequests requests are in      *)
(* flight; each runs its handler one await at a time, interleaved with the *)
(* others.  Requests come from the tracking script or from any other       *)
(* client of the public endpoint.                                          *)
(***************************************************************************)
MaxRequests == 2

\* the tests table: one running test with the default split, one paused;
\* the goal of both is the custom event "g"
GoalEvent == <<103>>
OtherEvent == <<111>>

Tests ==
    (Test1 :> [status |-> "running", clientActive |-> TRUE,
               trafficSplit |-> <<<<LabelA, 50>>, <<LabelB, 50>>>>,
               goal |-> [type |-> "custom", value |-> GoalEvent]]) @@
    (Test2 :> [status |-> "paused", clientActive |-> TRUE,
               trafficSplit |-> <<<<LabelA, 50>>, <<LabelB, 50>>>>,
               goal |-> [type |-> "custom", value |-> GoalEvent]]) @@
    (Test3 :> [status |-> "running", clientActive |-> FALSE,
               trafficSplit |-> <<<<LabelA, 50>>, <<LabelB, 50>>>>,
               goal |-> [type |-> "custom", value |-> GoalEvent]])

NoUserAgent == <<>>
BrowserUserAgent == <<77>>
UserAgents == {NoUserAgent, BrowserUserAgent}

\* the variation a client may send: a label of the split, another string, or
\* nothing
PostedVariations == {LabelA, LabelZ, <<>>}

\* validator's isUUID
isUUID(str) ==
    /\ Len(str) = 36
    /\ \A i \in 1 .. 36 :
          IF i \in {9, 14, 19, 24} THEN str[i] = 45
          ELSE IsDigit(str[i]) \/ (str[i] >= 65 /\ str[i] <= 70)
                               \/ (str[i] >= 97 /\ str[i] <= 102)

\* the express-validator chain of the route
validVisitorBody(req) ==
    /\ isUUID(req.testId)
    /\ Len(req.userId) >= 1 /\ Len(req.userId) <= 100
    /\ Len(req.variation) >= 1 /\ Len(req.variation) <= 10
    /\ Len(req.userAgent) <= 500

\* the lookup without status: 'running'
runningTest_anyStatus(testId) ==
    /\ testId \in DOMAIN Tests
    /\ Tests[testId].clientActive

\* Test.findOne({ where: { id, status: 'running' }, include: Client }) found
\* a test whose client is active
runningTest(testId) ==
    /\ testId \in DOMAIN Tests
    /\ Tests[testId].status = "running"
    /\ Tests[testId].clientActive

\* Visitor.findOne({ where: { testId, userId } }): the row's position, or 0
findVisitor(rows, testId, userId) ==
    IF \E i \in 1 .. Len(rows) : rows[i].testId = testId /\ rows[i].userId = userId
    THEN CHOOSE i \in 1 .. Len(rows) : rows[i].testId = testId /\ rows[i].userId = userId
    ELSE 0

\* no unique index on the table
uniqueViolation_noIndex(rows, testId, userId) == FALSE

\* the unique index on (userId, testId) rejects the insert
uniqueViolation(rows, testId, userId) ==
    \E i \in 1 .. Len(rows) : rows[i].testId = testId /\ rows[i].userId = userId

\* an update that also writes the posted variation
updatedVisitor_withVariation(row, req) ==
    [row EXCEPT !.userAgent = IF req.userAgent # <<>> THEN req.userAgent ELSE @,
                !.variation = req.variation]

\* existingVisitor.update({ userAgent: userAgent || existingVisitor.userAgent, ... })
updatedVisitor(row, req) ==
    [row EXCEPT !.userAgent = IF req.userAgent # <<>> THEN req.userAgent ELSE @]

NewRequest(testId, userId, variation, userAgent) ==
    [testId |-> testId, userId |-> userId, variation |-> variation,
     userAgent |-> userAgent, pc |-> "received", existing |-> 0, status |-> 0]

InitTrack ==
    /\ StatsIdle
    /\ AssignIdle
    /\ visitors = <<>>
    /\ reqs = <<>>
    /\ clock = 0
    /\ OthersIdle

\* the tracking script on a page of a running test: loadTest, assignVariation,
\* trackVisitor
ScriptTrackVisitor(userId, testId) ==
    /\ Len(reqs) < MaxRequests
    /\ runningTest(testId)
    /\ reqs' = Append(reqs,
                 NewRequest(testId, userId,
                            scriptAssignVariation(userId,
                                [id |-> testId, trafficSplit |-> Tests[testId].trafficSplit]),
                            BrowserUserAgent))
    /\ UNCHANGED <<obs, ret, trafficSplit, calls, bucket, tally, visitors, clock, others>>

\* any client posting any body
PostVisitor(userId, testId, variation, userAgent) ==
    /\ Len(reqs) < MaxRequests
    /\ reqs' = Append(reqs, NewRequest(testId, userId, variation, userAgent))
    /\ UNCHANGED <<obs, ret, trafficSplit, calls, bucket, tally, visitors, clock, others>>

\* validation, then Test.findOne: 400, 404, or on to the visitor lookup
FindTest(i) ==
    /\ reqs[i].pc = "received"
    /\ reqs' = [reqs EXCEPT ![i] =
                  IF ~validVisitorBody(reqs[i])
                  THEN [reqs[i] EXCEPT !.pc = "done", !.status = 400]
                  ELSE IF ~runningTest(reqs[i].testId)
                  THEN [reqs[i] EXCEPT !.pc = "done", !.status = 404]
                  ELSE [reqs[i] EXCEPT !.pc = "findVisitor"]]
    /\ UNCHANGED <<obs, ret, trafficSplit, calls, bucket, tally, visitors, clock, others>>

\* Visitor.findOne
FindVisitor(i) ==
    /\ reqs[i].pc = "findVisitor"
    /\ LET found == findVisitor(visitors, reqs[i].testId, reqs[i].userId)
       IN  reqs' = [reqs EXCEPT ![i].existing = found,
                                ![i].pc = IF found # 0 THEN "update" ELSE "create"]
    /\ UNCHANGED <<obs, ret, trafficSplit, calls, bucket, tally, visitors, clock, others>>

\* existingVisitor.update, and the 200 response
UpdateVisitor(i) ==
    /\ reqs[i].pc = "update"
    /\ visitors' = [visitors EXCEPT ![reqs[i].existing] =
                      updatedVisitor(visitors[reqs[i].existing], reqs[i])]
    /\ reqs' = [reqs EXCEPT ![i].pc = "done", ![i].status = 200]
    /\ UNCHANGED <<obs, ret, trafficSplit, calls, bucket, tally, clock, others>>

\* Visitor.create, and the 201 response, or 500 when the insert is rejected
CreateVisitor(i) ==
    /\ reqs[i].pc = "create"
    /\ IF uniqueViolation(visitors, reqs[i].testId, reqs[i].userId)
       THEN /\ reqs' = [reqs EXCEPT ![i].pc = "done", ![i].status = 500]
            /\ UNCHANGED <<visitors, clock, rateLimitMap>>
       ELSE /\ visitors' = Append(visitors,
                              [testId |-> reqs[i].testId, userId |-> reqs[i].userId,
                               variation |-> reqs[i].variation,
                               userAgent |-> reqs[i].userAgent,
                               firstVisit |-> clock])
            /\ clock' = clock + 1
            /\ reqs' = [reqs EXCEPT ![i].pc = "done", ![i].status = 201]
    /\ UNCHANGED <<obs, ret, trafficSplit, calls, bucket, tally, others>>

NextTrack ==
    \/ \E userId \in UserIds, testId \in TestIds : ScriptTrackVisitor(userId, testId)
    \/ \E userId \in UserIds, testId \in TestIds, variation \in PostedVariations,
          userAgent \in UserAgents : PostVisitor(userId, testId, variation, userAgent)
    \/ \E i \in 1 .. Len(reqs) : FindTest(i)
    \/ \E i \in 1 .. Len(reqs) : FindVisitor(i)
    \/ \E i \in 1 .. Len(reqs) : UpdateVisitor(i)
    \/ \E i \in 1 .. Len(reqs) : CreateVisitor(i)

SpecTrack == InitTrack /\ [][NextTrack]_vars

SameVisitor(a, b) == a.testId = b.testId /\ a.userId = b.userId

\* the requests that were answered with the given status
Answered(status) == {i \in 1 .. Len(reqs) : reqs[i].pc = "done" /\ reqs[i].status = status}

\* C5: after any interleaving of POST /track/visitor requests there is at
\* most one visitor row per (testId, userId), the row holds the variation of
\* the request that created it, and no later request changes the row's
\* variation or firstVisit.
C5_OneRowFirstVariationKept ==
    /\ [](/\ \A i, j \in 1 .. Len(visitors) :
                SameVisitor(visitors[i], visitors[j]) => i = j
          /\ \A i \in 1 .. Len(visitors) :
                \E r \in Answered(201) :
                    /\ SameVisitor(reqs[r], visitors[i])
                    /\ reqs[r].variation = visitors[i].variation
          /\ \A r, q \in Answered(201) : SameVisitor(reqs[r], reqs[q]) => r = q)
    /\ [][/\ Len(visitors') >= Len(visitors)
          /\ \A i \in 1 .. Len(visitors) :
                /\ SameVisitor(visitors'[i], visitors[i])
                /\ visitors'[i].variation = visitors[i].variation
                /\ visitors'[i].firstVisit = visitors[i].firstVisit]_vars

\* a visitor was created with one variation and a later request for the same
\* visitor with another variation was answered 200
C5_Witness ==
    \E r \in Answered(201), q \in Answered(200), i \in 1 .. Len(visitors) :
        /\ SameVisitor(reqs[r], reqs[q])
        /\ SameVisitor(reqs[r], visitors[i])
        /\ reqs[q].variation # reqs[r].variation
        /\ reqs[q].userAgent # reqs[r].userAgent
        /\ visitors[i].variation = reqs[r].variation
        /\ visitors[i].userAgent = reqs[q].userAgent

LabelsOf(split) == {split[i][1] : i \in 1 .. Len(split)}

\* C6: the variation stored for every visitor is the label assignVariation
\* yields for the visitor's id, the test's id and the test's traffic split,
\* so it is a label of that split.
C6_StoredVariationIsEngineLabel ==
    \A i \in 1 .. Len(visitors) :
        /\ visitors[i].variation =
               assignVariation(visitors[i].userId, visitors[i].testId,
                               Tests[visitors[i].testId].trafficSplit)
        /\ visitors[i].variation \in LabelsOf(Tests[visitors[i].testId].trafficSplit)

\* the weaker half alone: every stored variation is a label of the split
C6_StoredVariationIsLabelOfSplit ==
    \A i \in 1 .. Len(visitors) :
        visitors[i].variation \in LabelsOf(Tests[visitors[i].testId].trafficSplit)

(***************************************************************************)
(* SpecConvert: POST /track/visitor together with POST /track/conversion   *)
(* and POST /track/event.  Up to MaxConversionRequests conversion and      *)
(* event requests are in flight beside the visitor requests, at most       *)
(* MaxInFlight in all, each handler running one await at a time.  The      *)
(* visitor requests are those of a client that posts variation A for the   *)
(* running test.                                                           *)
(***************************************************************************)
MaxConversionRequests == 2
MaxInFlight == 3

EventNames == {GoalEvent, OtherEvent}

\* the validators of POST /conversion and of POST /event
validConversionBody(req) ==
    /\ isUUID(req.testId)
    /\ Len(req.userId) >= 1 /\ Len(req.userId) <= 100
    /\ Len(req.variation) >= 1 /\ Len(req.variation) <= 10

validEventBody(req) ==
    /\ isUUID(req.testId)
    /\ Len(req.userId) >= 1 /\ Len(req.userId) <= 100
    /\ Len(req.eventName) >= 1 /\ Len(req.eventName) <= 100

\* Conversion.findOne({ where: { testId, userId } }) finds a row
findConversion(rows, testId, userId) ==
    \E i \in 1 .. Len(rows) : rows[i].testId = testId /\ rows[i].userId = userId

\* test.goal.type === 'custom' && test.goal.value === eventName
isGoalEvent(testId, eventName) ==
    Tests[testId].goal.type = "custom" /\ Tests[testId].goal.value = eventName

\* the variation of the row Conversion.create writes: the body's in
\* POST /conversion, visitor.variation in POST /event
convertedVariation(req) ==
    IF req.kind = "conversion" THEN req.variation ELSE req.visitorVariation

PostConversion(userId, testId, variation) ==
    /\ Len(convReqs) < MaxConversionRequests
    /\ convReqs' = Append(convReqs,
                     [kind |-> "conversion", testId |-> testId, userId |-> userId,
                      variation |-> variation, eventName |-> <<>>,
                      visitorVariation |-> <<>>, pc |-> "received", status |-> 0])
    /\ UNCHANGED <<obs, ret, trafficSplit, calls, bucket, tally, visitors, reqs, clock,
                   args, sim, conversionRows, tests, reply, rateLimitMap>>

PostEvent(userId, testId, eventName) ==
    /\ Len(convReqs) < MaxConversionRequests
    /\ convReqs' = Append(convReqs,
                     [kind |-> "event", testId |-> testId, userId |-> userId,
                      variation |-> <<>>, eventName |-> eventName,
                      visitorVariation |-> <<>>, pc |-> "received", status |-> 0])
    /\ UNCHANGED <<obs, ret, trafficSplit, calls, bucket, tally, visitors, reqs, clock,
                   args, sim, conversionRows, tests, reply, rateLimitMap>>

\* validation, then Test.findOne: 400, 404, or on to the visitor lookup
ConvFindTest(i) ==
    /\ convReqs[i].pc = "received"
    /\ convReqs' = [convReqs EXCEPT ![i] =
                      IF ~(IF convReqs[i].kind = "conversion"
                           THEN validConversionBody(convReqs[i])
                           ELSE validEventBody(convReqs[i]))
                      THEN [convReqs[i] EXCEPT !.pc = "done", !.status = 400]
                      ELSE IF ~runningTest(convReqs[i].testId)
                      THEN [convReqs[i] EXCEPT !.pc = "done", !.status = 404]
                      ELSE [convReqs[i] EXCEPT !.pc = "findVisitor"]]
    /\ UNCHANGED <<obs, ret, trafficSplit, calls, bucket, tally, visitors, reqs, clock,
                   args, sim, conversionRows, tests, reply, rateLimitMap>>

\* Visitor.findOne: 400 without a visitor; an event that is not the test's
\* goal is answered 200 here
ConvFindVisitor(i) ==
    /\ convReqs[i].pc = "findVisitor"
    /\ LET found == findVisitor(visitors, convReqs[i].testId, convReqs[i].userId)
       IN  convReqs' = [convReqs EXCEPT ![i] =
                          IF found = 0
                          THEN [convReqs[i] EXCEPT !.pc = "done", !.status = 400]
                          ELSE IF convReqs[i].kind = "event"
                                  /\ ~isGoalEvent(convReqs[i].testId, convReqs[i].eventName)
                          THEN [convReqs[i] EXCEPT !.pc = "done", !.status = 200]
                          ELSE [convReqs[i] EXCEPT !.pc = "findConversion",
                                                   !.visitorVariation = visitors[found].variation]]
    /\ UNCHANGED <<obs, ret, trafficSplit, calls, bucket, tally, visitors, reqs, clock,
                   args, sim, conversionRows, tests, reply, rateLimitMap>>

\* Conversion.findOne: 200 when the visitor has converted already
ConvFindConversion(i) ==
    /\ convReqs[i].pc = "findConversion"
    /\ convReqs' = [convReqs EXCEPT ![i] =
                      IF findConversion(conversionRows, convReqs[i].testId, convReqs[i].userId)
                      THEN [convReqs[i] EXCEPT !.pc = "done", !.status = 200]
                      ELSE [convReqs[i] EXCEPT !.pc = "create"]]
    /\ UNCHANGED <<obs, ret, trafficSplit, calls, bucket, tally, visitors, reqs, clock,
                   args, sim, conversionRows, tests, reply, rateLimitMap>>

\* Conversion.create, and 201 from POST /conversion or 200 from POST /event
ConvCreate(i) ==
    /\ convReqs[i].pc = "create"
    /\ conversionRows' = Append(conversionRows,
                           [testId |-> convReqs[i].testId, userId |-> convReqs[i].userId,
                            variation |-> convertedVariation(convReqs[i])])
    /\ convReqs' = [convReqs EXCEPT ![i].pc = "done",
                                    ![i].status = IF convReqs[i].kind = "conversion"
                                                  THEN 201 ELSE 200]
    /\ UNCHANGED <<obs, ret, trafficSplit, calls, bucket, tally, visitors, reqs, clock,
                   args, sim, tests, reply, rateLimitMap>>

\* fewer than MaxInFlight requests of all three kinds together
RoomForRequest == Len(reqs) + Len(convReqs) < MaxInFlight

NextConvert ==
    \/ \E userId \in UserIds :
          RoomForRequest /\ PostVisitor(userId, Test1, LabelA, NoUserAgent)
    \/ \E i \in 1 .. Len(reqs) : FindTest(i)
    \/ \E i \in 1 .. Len(reqs) : FindVisitor(i)
    \/ \E i \in 1 .. Len(reqs) : UpdateVisitor(i)
    \/ \E i \in 1 .. Len(reqs) : CreateVisitor(i)
    \/ \E userId \in UserIds, testId \in TestIds, variation \in PostedVariations :
          RoomForRequest /\ PostConversion(userId, testId, variation)
    \/ \E userId \in UserIds, testId \in TestIds, eventName \in EventNames :
          RoomForRequest /\ PostEvent(userId, testId, eventName)
    \/ \E i \in 1 .. Len(convReqs) : ConvFindTest(i)
    \/ \E i \in 1 .. Len(convReqs) : ConvFindVisitor(i)
    \/ \E i \in 1 .. Len(convReqs) : ConvFindConversion(i)
    \/ \E i \in 1 .. Len(convReqs) : ConvCreate(i)

SpecConvert == InitTrack /\ [][NextConvert]_vars

\* the rows of a table for one test and one variation label
RowsOf(rows, testId, label) ==
    {i \in 1 .. Len(rows) : rows[i].testId = testId /\ rows[i].variation = label}

\* C19: after any sequence of accepted tracking requests, for every test and
\* every variation label the stored conversions with that label are at most
\* the stored visitors with that label.
C19_ConversionsAtMostVisitors ==
    \A testId \in TestIds, label \in {LabelA, LabelB, LabelZ} :
        Cardinality(RowsOf(conversionRows, testId, label))
            <= Cardinality(RowsOf(visitors, testId, label))

\* the same for the visitors that converted: at most one conversion per
\* (testId, userId)
C19_OneConversionPerVisitor ==
    \A i, j \in 1 .. Len(conversionRows) :
        SameVisitor(conversionRows[i], conversionRows[j]) => i = j

\* C23: under any interleaving of POST /track/conversion and POST
\* /track/event requests at most one conversion row exists per
\* (testId, userId).
C23_AtMostOneConversionRow ==
    \A testId \in TestIds, userId \in UserIds :
        Cardinality({i \in 1 .. Len(conversionRows) :
            conversionRows[i].testId = testId /\ conversionRows[i].userId = userId}) <= 1

\* what the lookup does keep: a request whose Conversion.findOne runs after
\* the row exists answers 200 and creates nothing
C23_LookupAfterRowCreatesNothing ==
    [][\A i \in 1 .. Len(convReqs) :
          (/\ convReqs[i].pc = "findConversion"
           /\ findConversion(conversionRows, convReqs[i].testId, convReqs[i].userId)
           /\ convReqs'[i] # convReqs[i])
          => convReqs'[i].pc = "done" /\ conversionRows' = conversionRows]_vars

(***************************************************************************)
(* SpecTests: the create, update and duplicate routes of routes/tests.js   *)
(* on the tests table, one request at a time.  The file defines            *)
(* router.post('/') and router.patch('/:id') twice; both definitions are   *)
(* modelled.  A value of a traffic split is whatever JSON the client      *)
(* sent: a number or a string.                                             *)
(***************************************************************************)
MaxTests == 2

JsNumber(n) == [t |-> "number", n |-> n]
JsString(str) == [t |-> "string", s |-> str]
JsNaN == [t |-> "NaN"]

\* String(n) for an integer n >= 0, and for any integer
RECURSIVE DigitsOf(_)
DigitsOf(n) == IF n < 10 THEN <<48 + n>> ELSE DigitsOf(n \div 10) \o <<48 + (n % 10)>>

jsToString(v) ==
    IF v.t = "string" THEN v.s
    ELSE IF v.t = "NaN" THEN <<78, 97, 78>>
    ELSE IF v.n < 0 THEN <<45>> \o DigitsOf(-v.n)
    ELSE DigitsOf(v.n)

\* the value of a string of decimal digits
RECURSIVE DecimalOf(_)
DecimalOf(str) ==
    IF str = <<>> THEN 0
    ELSE 10 * DecimalOf(SubSeq(str, 1, Len(str) - 1)) + (str[Len(str)] - 48)

AllDigits(str) == \A i \in 1 .. Len(str) : IsDigit(str[i])

\* Number(v), for strings made of digits, a leading minus sign and letters
\* that belong to no numeric literal
jsToNumber(v) ==
    IF v.t # "string" THEN v
    ELSE IF AllDigits(v.s) THEN JsNumber(DecimalOf(v.s))
    ELSE IF v.s[1] = 45 /\ Len(v.s) > 1 /\ AllDigits(Tail(v.s))
         THEN JsNumber(-DecimalOf(Tail(v.s)))
    ELSE JsNaN

\* sum + val
jsPlus(sum, val) ==
    IF sum.t = "string" \/ val.t = "string" THEN JsString(jsToString(sum) \o jsToString(val))
    ELSE IF sum.t = "NaN" \/ val.t = "NaN" THEN JsNaN
    ELSE JsNumber(sum.n + val.n)

\* Object.values(trafficSplit).reduce((sum, val) => sum + val, 0), from
\* entry i on
RECURSIVE reduceFrom(_, _, _)
reduceFrom(entries, i, sum) ==
    IF i > Len(entries) THEN sum
    ELSE reduceFrom(entries, i + 1, jsPlus(sum, entries[i][2]))

trafficTotal(split) == reduceFrom(ObjectEntries(split), 1, JsNumber(0))

\* Math.abs(trafficTotal - 100) > 0.01 on a total that is an integer, a
\* string or NaN: the total is converted to a number, and the test is false
\* for NaN
splitRejected(split) ==
    LET total == jsToNumber(trafficTotal(split))
    IN  total.t = "number" /\ total.n # 100

\* the trafficSplit objects a client may send
SplitBodies ==
    { <<<<LabelA, JsNumber(50)>>, <<LabelB, JsNumber(50)>>>>,
      <<<<LabelA, JsNumber(70)>>, <<LabelB, JsNumber(70)>>>>,
      <<<<LabelA, JsNumber(120)>>, <<LabelB, JsNumber(-20)>>>>,
      <<<<LabelA, JsNumber(100)>>>>,
      <<>>,
      <<<<LabelA, JsString(<<49, 48, 48>>)>>>>,
      <<<<LabelA, JsString(<<113>>)>>, <<LabelB, JsNumber(50)>>>> }

\* no trafficSplit in the body
NoSplit == <<<<"absent">>>>

Statuses == {"draft", "running", "paused", "completed", "archived"}
NoStatus == "absent"

InitTests ==
    /\ rateLimitMap = <<>>
    /\ tests = <<>>
    /\ reply = NoReply
    /\ StatsIdle
    /\ AssignIdle
    /\ TrackIdle
    /\ args = <<>>
    /\ sim = NotStarted
    /\ conversionRows = <<>>
    /\ convReqs = <<>>

Reply(route, status, split) == [route |-> route, status |-> status, split |-> split]

\* startedAt and endedAt: null, or the new Date() of the request that set it
NullDate == "null"
ADate == "date"

\* Test.create({ ..., status: 'draft' })
NewTest(split) ==
    [trafficSplit |-> split, status |-> "draft", startedAt |-> NullDate, endedAt |-> NullDate]

\* router.post('/'), second definition
CreateTest(split, canCreateTests) ==
    /\ Len(tests) < MaxTests
    /\ IF ~canCreateTests
       THEN reply' = Reply("POST /", 403, split) /\ UNCHANGED tests
       ELSE IF splitRejected(split)
       THEN reply' = Reply("POST /", 400, split) /\ UNCHANGED tests
       ELSE /\ tests' = Append(tests, NewTest(split))
            /\ reply' = Reply("POST /", 201, split)
    /\ UNCHANGED <<obs, ret, trafficSplit, calls, bucket, tally, visitors, reqs, clock,
                   args, sim, conversionRows, convReqs, rateLimitMap>>

\* router.patch('/:id'), second definition
UpdateTest(id, split, status, canEditTests) ==
    /\ IF id \notin 1 .. Len(tests)
       THEN reply' = Reply("PATCH /:id", 404, split) /\ UNCHANGED tests
       ELSE IF ~canEditTests
       THEN reply' = Reply("PATCH /:id", 403, split) /\ UNCHANGED tests
       ELSE IF split # NoSplit /\ splitRejected(split)
       THEN reply' = Reply("PATCH /:id", 400, split) /\ UNCHANGED tests
       ELSE /\ tests' = [tests EXCEPT
                           ![id].trafficSplit = IF split # NoSplit THEN split ELSE @,
                           ![id].status = IF status # NoStatus THEN status ELSE @,
                           ![id].startedAt =
                               IF status = "running" /\ tests[id].status = "draft"
                               THEN ADate ELSE @,
                           ![id].endedAt =
                               IF status = "completed" /\ tests[id].status = "running"
                               THEN ADate ELSE @]
            /\ reply' = Reply("PATCH /:id", 200, split)
    /\ UNCHANGED <<obs, ret, trafficSplit, calls, bucket, tally, visitors, reqs, clock,
                   args, sim, conversionRows, convReqs, rateLimitMap>>

\* router.post('/:id/duplicate')
DuplicateTest(id, canCreateTests) ==
    /\ Len(tests) < MaxTests
    /\ IF id \notin 1 .. Len(tests)
       THEN reply' = Reply("POST /:id/duplicate", 404, NoSplit) /\ UNCHANGED tests
       ELSE IF ~canCreateTests
       THEN reply' = Reply("POST /:id/duplicate", 403, NoSplit) /\ UNCHANGED tests
       ELSE /\ tests' = Append(tests, NewTest(tests[id].trafficSplit))
            /\ reply' = Reply("POST /:id/duplicate", 201, NoSplit)
    /\ UNCHANGED <<obs, ret, trafficSplit, calls, bucket, tally, visitors, reqs, clock,
                   args, sim, conversionRows, convReqs, rateLimitMap>>

\* router.delete('/:id')
DeleteTest(id, canDeleteTests) ==
    /\ IF id \notin 1 .. Len(tests)
       THEN reply' = Reply("DELETE /:id", 404, NoSplit) /\ UNCHANGED tests
       ELSE IF ~canDeleteTests
       THEN reply' = Reply("DELETE /:id", 403, NoSplit) /\ UNCHANGED tests
       ELSE /\ tests' = [tests EXCEPT ![id].status = "archived"]
            /\ reply' = Reply("DELETE /:id", 200, NoSplit)
    /\ UNCHANGED <<obs, ret, trafficSplit, calls, bucket, tally, visitors, reqs, clock,
                   args, sim, conversionRows, convReqs, rateLimitMap>>

\* router.post('/'), first definition: Test.create({ ...req.body, status:
\* 'draft' }); a body without trafficSplit gets the column's default
CreateTestFirst(split, isMember) ==
    /\ Len(tests) < MaxTests
    /\ IF ~isMember
       THEN reply' = Reply("POST / (first)", 403, split) /\ UNCHANGED tests
       ELSE /\ tests' = Append(tests,
                          NewTest(IF split # NoSplit THEN split
                                  ELSE <<<<LabelA, JsNumber(50)>>, <<LabelB, JsNumber(50)>>>>))
            /\ reply' = Reply("POST / (first)", 201, split)
    /\ UNCHANGED <<obs, ret, trafficSplit, calls, bucket, tally, visitors, reqs, clock,
                   args, sim, conversionRows, convReqs, rateLimitMap>>

\* router.patch('/:id'), first definition: test.update(req.body)
UpdateTestFirst(id, split, status, isMember) ==
    /\ IF id \notin 1 .. Len(tests)
       THEN reply' = Reply("PATCH /:id (first)", 404, split) /\ UNCHANGED tests
       ELSE IF ~isMember
       THEN reply' = Reply("PATCH /:id (first)", 403, split) /\ UNCHANGED tests
       ELSE /\ tests' = [tests EXCEPT
                           ![id].trafficSplit = IF split # NoSplit THEN split ELSE @,
                           ![id].status = IF status # NoStatus THEN status ELSE @]
            /\ reply' = Reply("PATCH /:id (first)", 200, split)
    /\ UNCHANGED <<obs, ret, trafficSplit, calls, bucket, tally, visitors, reqs, clock,
                   args, sim, conversionRows, convReqs, rateLimitMap>>

NextTests ==
    \/ \E split \in SplitBodies, canCreateTests \in BOOLEAN :
          CreateTest(split, canCreateTests)
    \/ \E id \in 1 .. MaxTests, split \in SplitBodies \cup {NoSplit},
          status \in {"running", NoStatus}, canEditTests \in BOOLEAN :
          UpdateTest(id, split, status, canEditTests)
    \/ \E id \in 1 .. MaxTests, canCreateTests \in BOOLEAN :
          DuplicateTest(id, canCreateTests)
    \/ \E split \in SplitBodies \cup {NoSplit}, isMember \in BOOLEAN :
          CreateTestFirst(split, isMember)
    \/ \E id \in 1 .. MaxTests, split \in SplitBodies \cup {NoSplit},
          status \in {"running", NoStatus}, isMember \in BOOLEAN :
          UpdateTestFirst(id, split, status, isMember)

SpecTests == InitTests /\ [][NextTests]_vars

\* the second definitions of the routes alone
NextValidatedTests ==
    \/ \E split \in SplitBodies, canCreateTests \in BOOLEAN :
          CreateTest(split, canCreateTests)
    \/ \E id \in 1 .. MaxTests, split \in SplitBodies \cup {NoSplit},
          status \in {"running", NoStatus}, canEditTests \in BOOLEAN :
          UpdateTest(id, split, status, canEditTests)
    \/ \E id \in 1 .. MaxTests, canCreateTests \in BOOLEAN :
          DuplicateTest(id, canCreateTests)

SpecValidatedTests == InitTests /\ [][NextValidatedTests]_vars

\* the percentages of a split are numbers that sum to 100
RECURSIVE NumberSum(_, _)
NumberSum(split, k) == IF k = 0 THEN 0 ELSE NumberSum(split, k - 1) + split[k][2].n

SumsTo100(split) ==
    /\ \A i \in 1 .. Len(split) : split[i][2].t = "number"
    /\ NumberSum(split, Len(split)) = 100

\* C20: after any sequence of create, update and duplicate requests every
\* stored test has a trafficSplit whose percentages sum to 100, and a create
\* or update whose supplied split sums to anything else is refused.
C20_StoredSplitsSumTo100 ==
    /\ \A i \in 1 .. Len(tests) : SumsTo100(tests[i].trafficSplit)
    /\ (/\ reply.route \in {"POST /", "PATCH /:id", "POST / (first)", "PATCH /:id (first)"}
        /\ reply.split # NoSplit
        /\ ~SumsTo100(reply.split)) => reply.status >= 400

\* what the second definitions do keep: a stored split whose values are all
\* numbers sums to 100
C20_NumericSplitsSumTo100 ==
    \A i \in 1 .. Len(tests) :
        (\A k \in 1 .. Len(tests[i].trafficSplit) : tests[i].trafficSplit[k][2].t = "number")
            => SumsTo100(tests[i].trafficSplit)

(***************************************************************************)
(* SpecDates: calls of getDateRange.  An instant is a whole number of      *)
(* ticks; a day is DayTicks ticks and a calendar month MonthTicks ticks.   *)
(* A date string is an ISO string of an instant, a month name with a year, *)
(* or text that is neither; an absent argument is undefined or ''.         *)
(***************************************************************************)
MaxTick == 5
DayTicks == 2
MonthTicks == 4

Absent == [fmt |-> "absent"]
IsoString(t) == [fmt |-> "iso", t |-> t]
MonthString(m) == [fmt |-> "month", m |-> m]
BadString == [fmt |-> "bad"]

Instant(t) == [valid |-> TRUE, t |-> t]
InvalidDate == [valid |-> FALSE]

parseISO(str) == IF str.fmt = "iso" THEN Instant(str.t) ELSE InvalidDate

\* parse(str, 'LLLL yyyy', new Date(), { locale: nl })
parseMonth(str) == IF str.fmt = "month" THEN Instant(str.m * MonthTicks) ELSE InvalidDate

startOfMonth(date) == Instant((date.t \div MonthTicks) * MonthTicks)
endOfMonth(date) == Instant((date.t \div MonthTicks) * MonthTicks + MonthTicks - 1)

toISOString(date) == IsoString(date.t)

\* startDate after the parsing of a supplied start
parsedStart(start) ==
    IF parseISO(start).valid THEN parseISO(start)
    ELSE IF parseMonth(start).valid THEN startOfMonth(parseMonth(start))
    ELSE InvalidDate

\* endDate after the parsing of a supplied end
parsedEnd(end) ==
    IF parseISO(end).valid THEN parseISO(end)
    ELSE IF parseMonth(end).valid THEN endOfMonth(parseMonth(end))
    ELSE InvalidDate

Throws(message) == [throws |-> message]
Range(startDate, endDate) ==
    [startDate |-> toISOString(startDate), endDate |-> toISOString(endDate)]

\* the days the switch on period goes back
periodDays(period) ==
    CASE period = "24h" -> 1
      [] period = "7d" -> 7
      [] period = "30d" -> 30
      [] period = "90d" -> 90
      [] OTHER -> 30

\* the explicit branch with nothing compared before the return
explicitRange_unordered(start, end, now, later) ==
    LET parsed == IF end # Absent THEN parsedEnd(end) ELSE Instant(now)
        startDate == IF start # Absent THEN parsedStart(start)
                     ELSE Instant(parsed.t - 30 * DayTicks)
        endDate == IF parsed.t > later THEN Instant(now) ELSE parsed
    IN  Range(startDate, endDate)

\* the explicit branch once both arguments have parsed; now is the clock
\* read on entry, later the clock isFuture reads
explicitRange(start, end, now, later) ==
    LET parsed == IF end # Absent THEN parsedEnd(end) ELSE Instant(now)
        startDate == IF start # Absent THEN parsedStart(start)
                     ELSE Instant(parsed.t - 30 * DayTicks)
        endDate == IF parsed.t > later THEN Instant(now) ELSE parsed
    IN  IF startDate.t > endDate.t THEN Throws("Start date must be before end date")
        ELSE Range(startDate, endDate)

getDateRange(period, start, end, now, later) ==
    IF start # Absent \/ end # Absent
    THEN IF start # Absent /\ ~parsedStart(start).valid THEN Throws("Invalid start date")
         ELSE IF end # Absent /\ ~parsedEnd(end).valid THEN Throws("Invalid end date")
         ELSE explicitRange(start, end, now, later)
    ELSE Range(Instant(later - periodDays(period) * DayTicks), Instant(now))

Periods == {"24h", "7d", "30d", "90d", "1y"}
DateStrings ==
    {Absent, BadString} \cup {IsoString(t) : t \in 0 .. MaxTick}
        \cup {MonthString(m) : m \in 0 .. 1}
Nows == 2 .. 3

InitDates ==
    /\ rateLimitMap = <<>>
    /\ args = <<>>
    /\ ret = NoCall
    /\ obs = <<0, 0, 0, 0>>
    /\ AssignIdle
    /\ TrackIdle
    /\ sim = NotStarted
    /\ conversionRows = <<>>
    /\ convReqs = <<>>
    /\ tests = <<>>
    /\ reply = NoReply

GetDateRangeCall(period, start, end, now, later) ==
    /\ args' = [period |-> period, start |-> start, end |-> end, now |-> now, later |-> later]
    /\ ret' = [fn |-> "getDateRange", val |-> getDateRange(period, start, end, now, later)]
    /\ UNCHANGED <<obs, trafficSplit, calls, bucket, tally, visitors, reqs, clock,
                   sim, conversionRows, convReqs, tests, reply, rateLimitMap>>

NextDates ==
    \E period \in Periods, start \in DateStrings, end \in DateStrings, now \in Nows :
        \E later \in {now, now + 1} : GetDateRangeCall(period, start, end, now, later)

SpecDates == InitDates /\ [][NextDates]_vars

\* the instant a supplied date string names: the instant of an ISO string,
\* the first tick of a month for a start and its last tick for an end
startInstant(str) == IF str.fmt = "iso" THEN str.t ELSE str.m * MonthTicks
endInstant(str) == IF str.fmt = "iso" THEN str.t ELSE (str.m + 1) * MonthTicks - 1

BothSupplied ==
    /\ ret.fn = "getDateRange"
    /\ args.start.fmt \in {"iso", "month"}
    /\ args.end.fmt \in {"iso", "month"}

Returned == ret.fn = "getDateRange" /\ "startDate" \in DOMAIN ret.val

OrderError == Throws("Start date must be before end date")

\* C21 as stated: with a valid start and end, getDateRange returns exactly
\* the two instants when start is not after end and throws 'Start date must
\* be before end date' when start is after end; every returned range has
\* startDate <= endDate.
C21_ExplicitRangeReturned ==
    /\ BothSupplied =>
          IF startInstant(args.start) <= endInstant(args.end)
          THEN ret.val = [startDate |-> IsoString(startInstant(args.start)),
                          endDate |-> IsoString(endInstant(args.end))]
          ELSE ret.val = OrderError
    /\ Returned => ret.val.startDate.t <= ret.val.endDate.t

\* C21 with the clamp of a future end: the two instants are returned when
\* start is not after end and end is not in the future; an end in the future
\* is replaced by now, and the call then throws if start is after now; a
\* start after end always throws; every returned range has
\* startDate <= endDate.
C21_ExplicitRangeClampedToNow ==
    /\ BothSupplied =>
          LET s == startInstant(args.start)
              e == endInstant(args.end)
          IN  /\ (s <= e /\ e <= args.later) =>
                    ret.val = [startDate |-> IsoString(s), endDate |-> IsoString(e)]
              /\ (s <= args.now /\ e > args.later) =>
                    ret.val = [startDate |-> IsoString(s), endDate |-> IsoString(args.now)]
              /\ (s > e \/ (e > args.later /\ s > args.now)) => ret.val = OrderError
    /\ Returned => ret.val.startDate.t <= ret.val.endDate.t

\* a call with a past start and a future end has returned the range up to now
C21_Witness ==
    /\ BothSupplied
    /\ startInstant(args.start) <= args.now
    /\ endInstant(args.end) > args.later
    /\ Returned
    /\ ret.val.endDate = IsoString(args.now)

(***************************************************************************)
(* SpecAnalytics: GET /analytics/stats/:clientId over the tests, visitors  *)
(* and conversions tables.  Visitor and conversion rows are stored by the  *)
(* tracking routes at the time of the server's clock; a row names its test *)
(* by the test's position in the tests table.                              *)
(***************************************************************************)
MaxStatVisitors == 3
MaxStatConversions == 2

\* the instants of the server's clock
StatsInstants == {0, 1}

Client1 == "client1"
Client2 == "client2"
ClientIds == {Client1, Client2}

StatsRoute == "GET /analytics/stats/:clientId"

\* parseFloat((num / den * 100).toFixed(2)), in hundredths of a percent;
\* the quotients of the counts used here are never halfway between two
\* hundredths
toFixed2_truncating(num, den) == (100 * 100 * num) \div den

toFixed2(num, den) == (2 * 100 * 100 * num + den) \div (2 * den)

\* createdAt: { [Op.between]: [startDate, endDate] }
between(row, range) ==
    row.createdAt >= range.startDate.t /\ row.createdAt <= range.endDate.t

\* Test.count({ where: { clientId, status: 'running', createdAt } })
countActiveTests(clientId, range) ==
    Cardinality({i \in 1 .. Len(tests) :
        /\ tests[i].clientId = clientId
        /\ tests[i].status = "running"
        /\ between(tests[i], range)})

\* Visitor.count / Conversion.count with include Test where { clientId }
countRows(rows, clientId, range) ==
    Cardinality({i \in 1 .. Len(rows) :
        /\ between(rows[i], range)
        /\ rows[i].test \in 1 .. Len(tests)
        /\ tests[rows[i].test].clientId = clientId})

statsBody(clientId, range) ==
    LET totalVisitors == countRows(visitors, clientId, range)
        totalConversions == countRows(conversionRows, clientId, range)
    IN  [activeTests |-> countActiveTests(clientId, range),
         totalVisitors |-> totalVisitors,
         totalConversions |-> totalConversions,
         conversionRate |-> IF totalVisitors > 0
                            THEN toFixed2(totalConversions, totalVisitors) ELSE 0]

\* the tests tables the requests are made on, as the test routes stored them
StatsTest(clientId, status) == [clientId |-> clientId, status |-> status, createdAt |-> 0]
StatsTests ==
    { <<StatsTest(Client1, "running")>>,
      <<StatsTest(Client1, "running"), StatsTest(Client2, "running")>>,
      <<StatsTest(Client1, "draft"), StatsTest(Client1, "running")>> }

InitAnalytics ==
    /\ rateLimitMap = <<>>
    /\ tests \in StatsTests
    /\ visitors = <<>>
    /\ conversionRows = <<>>
    /\ clock = 0
    /\ args = <<>>
    /\ reply = NoReply
    /\ StatsIdle
    /\ AssignIdle
    /\ reqs = <<>>
    /\ sim = NotStarted
    /\ convReqs = <<>>

\* a visitor row stored by the tracking routes
StoreVisitor(test) ==
    /\ Len(visitors) < MaxStatVisitors
    /\ visitors' = Append(visitors, [test |-> test, createdAt |-> clock])
    /\ UNCHANGED <<obs, ret, trafficSplit, calls, bucket, tally, reqs, clock,
                   args, sim, conversionRows, convReqs, tests, reply, rateLimitMap>>

\* a conversion row stored by the tracking routes
StoreConversion(test) ==
    /\ Len(conversionRows) < MaxStatConversions
    /\ conversionRows' = Append(conversionRows, [test |-> test, createdAt |-> clock])
    /\ UNCHANGED <<obs, ret, trafficSplit, calls, bucket, tally, visitors, reqs, clock,
                   args, sim, convReqs, tests, reply, rateLimitMap>>

StatsTick ==
    /\ clock + 1 \in StatsInstants
    /\ clock' = clock + 1
    /\ UNCHANGED <<obs, ret, trafficSplit, calls, bucket, tally, visitors, reqs,
                   args, sim, conversionRows, convReqs, tests, reply, rateLimitMap>>

\* router.get('/stats/:clientId') for an authenticated user
GetStats(clientId, start, end, hasUserClient) ==
    LET range == getDateRange("30d", start, end, clock, clock)
    IN  /\ args' = [clientId |-> clientId, start |-> start, end |-> end,
                    hasUserClient |-> hasUserClient, now |-> clock]
        /\ reply' = IF "throws" \in DOMAIN range
                    THEN [route |-> StatsRoute, status |-> 400, body |-> range.throws]
                    ELSE IF ~hasUserClient
                    THEN [route |-> StatsRoute, status |-> 403,
                          body |-> "Access denied to this client"]
                    ELSE [route |-> StatsRoute, status |-> 200,
                          body |-> statsBody(clientId, range)]
        /\ UNCHANGED <<obs, ret, trafficSplit, calls, bucket, tally, visitors, reqs, clock,
                       sim, conversionRows, convReqs, tests, rateLimitMap>>

\* the requests made: <<clientId, start, end, hasUserClient>>
StatsRequests ==
    { <<Client1, IsoString(1), IsoString(2), TRUE>>,
      <<Client1, IsoString(0), IsoString(0), TRUE>>,
      <<Client2, IsoString(0), IsoString(1), TRUE>>,
      <<Client1, Absent, Absent, TRUE>>,
      <<Client1, BadString, Absent, TRUE>>,
      <<Client1, IsoString(1), IsoString(0), TRUE>>,
      <<Client1, IsoString(0), IsoString(1), FALSE>> }

NextAnalytics ==
    \/ \E test \in 1 .. Len(tests) : StoreVisitor(test)
    \/ \E test \in 1 .. Len(tests) : StoreConversion(test)
    \/ StatsTick
    \/ \E r \in StatsRequests : GetStats(r[1], r[2], r[3], r[4])

SpecAnalytics == InitAnalytics /\ [][NextAnalytics]_vars

\* the rows of a table created from instant a to instant b for a client
RowsBetween(rows, clientId, a, b) ==
    {i \in 1 .. Len(rows) :
        /\ a <= rows[i].createdAt /\ rows[i].createdAt <= b
        /\ rows[i].test \in 1 .. Len(tests)
        /\ tests[rows[i].test].clientId = clientId}

\* a rate in hundredths of a percent is 100 * c / v rounded to two decimals
IsRoundedRate(rate, c, v) ==
    /\ 2 * (rate * v - 100 * 100 * c) <= v
    /\ 2 * (100 * 100 * c - rate * v) <= v

\* C22: a step of GET /analytics/stats/:clientId for a user with a
\* UserClient row and a supplied start and end that form a range up to now
\* answers 200 with the three counts of the rows in the range and
\* conversionRate = 100 * totalConversions / totalVisitors rounded to two
\* decimals, or 0 without visitors.
C22_StatsAsCounted ==
    [][(/\ <<args, reply>>' # <<args, reply>>
        /\ reply'.route = StatsRoute
        /\ args'.hasUserClient
        /\ args'.start.fmt = "iso"
        /\ args'.end.fmt = "iso"
        /\ args'.start.t <= args'.end.t
        /\ args'.start.t <= clock)
       => LET a == args'.start.t
              b == IF args'.end.t > clock THEN clock ELSE args'.end.t
              v == Cardinality(RowsBetween(visitors, args'.clientId, a, b))
              c == Cardinality(RowsBetween(conversionRows, args'.clientId, a, b))
          IN  /\ reply'.status = 200
              /\ reply'.body.activeTests =
                    Cardinality({i \in 1 .. Len(tests) :
                        /\ tests[i].clientId = args'.clientId
                        /\ tests[i].status = "running"
                        /\ a <= tests[i].createdAt /\ tests[i].createdAt <= b})
              /\ reply'.body.totalVisitors = v
              /\ reply'.body.totalConversions = c
              /\ IF v = 0 THEN reply'.body.conversionRate = 0
                 ELSE IsRoundedRate(reply'.body.conversionRate, c, v)]_vars

\* a 200 answer with a rate that needed rounding
C22_Witness ==
    /\ reply.route = StatsRoute
    /\ reply.status = 200
    /\ reply.body.totalVisitors = 3
    /\ reply.body.totalConversions = 2
    /\ reply.body.conversionRate = 6667

(***************************************************************************)
(* SpecReport: the significance GET /api/tests and GET /api/tests/:id      *)
(* report for a test, from the visitor and conversion counts of its        *)
(* variations in the order of Object.keys(test.trafficSplit).              *)
(***************************************************************************)
ListRoute == "GET /api/tests"
DetailRoute == "GET /api/tests/:id"

VariationStats == [visitors : Counts, conversions : Counts]

\* the variations a test may have: one, or two
VariationLists ==
    {<<v>> : v \in VariationStats} \cup {<<v, w>> : v, w \in VariationStats}

\* let significance = 0; if (variations.length >= 2 && ...) significance =
\* calculateSignificance(...)
significanceOf(variations) ==
    IF /\ Len(variations) >= 2
       /\ variations[1].visitors > 0
       /\ variations[2].visitors > 0
    THEN calculateSignificance(variations[1].conversions, variations[1].visitors,
                               variations[2].conversions, variations[2].visitors)
    ELSE Num(0)

\* significance || 0
orZero(x) == IF IsNaN(x) \/ x = Num(0) THEN Num(0) ELSE x

reportedSignificance(route, variations) ==
    IF route = ListRoute THEN orZero(significanceOf(variations))
    ELSE significanceOf(variations)

InitReport ==
    /\ rateLimitMap = <<>>
    /\ args = <<>>
    /\ ret = NoCall
    /\ obs = <<0, 0, 0, 0>>
    /\ AssignIdle
    /\ TrackIdle
    /\ sim = NotStarted
    /\ conversionRows = <<>>
    /\ convReqs = <<>>
    /\ tests = <<>>
    /\ reply = NoReply

\* router.get('/'), for one test of the page
GetTests(variations) ==
    /\ args' = [variations |-> variations]
    /\ ret' = [fn |-> ListRoute, val |-> reportedSignificance(ListRoute, variations)]
    /\ UNCHANGED <<obs, trafficSplit, calls, bucket, tally, visitors, reqs, clock,
                   sim, conversionRows, convReqs, tests, reply, rateLimitMap>>

\* router.get('/:id')
GetTest(variations) ==
    /\ args' = [variations |-> variations]
    /\ ret' = [fn |-> DetailRoute, val |-> reportedSignificance(DetailRoute, variations)]
    /\ UNCHANGED <<obs, trafficSplit, calls, bucket, tally, visitors, reqs, clock,
                   sim, conversionRows, convReqs, tests, reply, rateLimitMap>>

NextReport ==
    \/ \E variations \in VariationLists : GetTests(variations)
    \/ \E variations \in VariationLists : GetTest(variations)

SpecReport == InitReport /\ [][NextReport]_vars

Reported == ret.fn \in {ListRoute, DetailRoute}

NoDataInFirstTwo ==
    /\ Reported
    /\ Len(args.variations) >= 2
    /\ (args.variations[1].visitors = 0 \/ args.variations[2].visitors = 0)

\* C24: the significance reported for a test in which one of the first two
\* variations has no visitors is 1, the value of calculateSignificance for a
\* zero exposure count.
C24_NoDataReportsOne ==
    NoDataInFirstTwo => ret.val = Num(1)

\* what the routes report for such a test: 0
C24_NoDataReportsZero ==
    NoDataInFirstTwo => ret.val = Num(0)

(***************************************************************************)
(* SpecBayesSteps: bayesianProbability with gammaRandom step by step: the  *)
(* recursion on a shape below 1 and the rejection loop.  A round makes     *)
(* four calls of gammaRandom (x and y of sampleA, x and y of sampleB).     *)
(* Whether a candidate passes the test of the loop is the generator's      *)
(* choice; the candidates that pass are those of the seed's stream.        *)
(* The shapes are the whole numbers the counts and priors give; a shape    *)
(* that is NaN is not among them.                                          *)
(***************************************************************************)

\* the shape of the k-th call of gammaRandom in a round
shapeOfCall(s, k) ==
    CASE k = 1 -> s.alphaA
      [] k = 2 -> s.betaA
      [] k = 3 -> s.alphaB
      [] OTHER -> s.betaB

\* no candidate ever passes the test
acceptable_never(shape) == FALSE

\* with d = shape - 1/3 > 0 the test x < 0.5 * n * n + d - d * v + d *
\* Math.log(v) is true for some draws
acceptable(shape) == shape >= 1

StepTable == <<0, 3, 3, 3>>

InitBayesSteps ==
    /\ rateLimitMap = <<>>
    /\ obs = StepTable
    /\ ret = NoCall
    /\ sim = NotStarted
    /\ args = <<>>
    /\ AssignIdle
    /\ TrackIdle
    /\ conversionRows = <<>>
    /\ convReqs = <<>>
    /\ tests = <<>>
    /\ reply = NoReply

\* the call, up to the first gammaRandom of the first round
BayesStart(priorAlpha, priorBeta, seed) ==
    /\ sim.pc = "idle"
    /\ args' = [priorAlpha |-> priorAlpha, priorBeta |-> priorBeta]
    /\ sim' = [pc |-> "enter", seed |-> seed,
               alphaA |-> priorAlpha + obs[1],
               betaA |-> priorBeta + obs[2] - obs[1],
               alphaB |-> priorAlpha + obs[3],
               betaB |-> priorBeta + obs[4] - obs[3],
               i |-> 0, bWins |-> 0,
               call |-> 1, shape |-> priorAlpha + obs[1], rejected |-> FALSE]
    /\ UNCHANGED <<obs, ret, trafficSplit, calls, bucket, tally, visitors, reqs, clock,
                   conversionRows, convReqs, tests, reply, rateLimitMap>>

\* if (shape < 1) return gammaRandom(shape + 1, scale) * ...
GammaRecurse ==
    /\ sim.pc = "enter"
    /\ sim.shape < 1
    /\ sim' = [sim EXCEPT !.shape = sim.shape + 1]
    /\ UNCHANGED <<obs, ret, args, trafficSplit, calls, bucket, tally, visitors, reqs, clock,
                   conversionRows, convReqs, tests, reply, rateLimitMap>>

\* d and c, and into while (true)
GammaLoop ==
    /\ sim.pc = "enter"
    /\ sim.shape >= 1
    /\ sim' = [sim EXCEPT !.pc = "while", !.rejected = FALSE]
    /\ UNCHANGED <<obs, ret, args, trafficSplit, calls, bucket, tally, visitors, reqs, clock,
                   conversionRows, convReqs, tests, reply, rateLimitMap>>

\* a candidate with v <= 0, or one that fails the test
GammaReject ==
    /\ sim.pc = "while"
    /\ sim' = [sim EXCEPT !.rejected = TRUE]
    /\ UNCHANGED <<obs, ret, args, trafficSplit, calls, bucket, tally, visitors, reqs, clock,
                   conversionRows, convReqs, tests, reply, rateLimitMap>>

\* a candidate passes: gammaRandom returns through its recursive calls, and
\* the next call of the round starts
GammaAccept ==
    /\ sim.pc = "while"
    /\ acceptable(sim.shape)
    /\ sim' = IF sim.call < 4
              THEN [sim EXCEPT !.call = sim.call + 1,
                               !.shape = shapeOfCall(sim, sim.call + 1),
                               !.pc = "enter", !.rejected = FALSE]
              ELSE [sim EXCEPT !.pc = "compare", !.rejected = FALSE]
    /\ UNCHANGED <<obs, ret, args, trafficSplit, calls, bucket, tally, visitors, reqs, clock,
                   conversionRows, convReqs, tests, reply, rateLimitMap>>

\* the end of a round with bWins after it
RoundEndWith(bWins) ==
    /\ sim.pc = "compare"
    /\ sim' = [sim EXCEPT !.i = sim.i + 1,
                          !.bWins = bWins,
                          !.call = 1,
                          !.shape = sim.alphaA,
                          !.pc = IF sim.i + 1 < numSamples THEN "enter" ELSE "done"]
    /\ UNCHANGED <<obs, ret, args, trafficSplit, calls, bucket, tally, visitors, reqs, clock,
                   conversionRows, convReqs, tests, reply, rateLimitMap>>

\* if (sampleB > sampleA) bWins++, and i++
RoundEnd == RoundEndWith(bWinsAfter(sim.bWins, sampleA(sim, sim.i), sampleB(sim, sim.i)))

\* return bWins / numSamples
BayesFinish ==
    /\ sim.pc = "done"
    /\ sim' = [sim EXCEPT !.pc = "returned"]
    /\ ret' = [fn |-> "bayesianProbability", val |-> fDiv(Num(sim.bWins), Num(numSamples))]
    /\ UNCHANGED <<obs, args, trafficSplit, calls, bucket, tally, visitors, reqs, clock,
                   conversionRows, convReqs, tests, reply, rateLimitMap>>

NextBayesSteps ==
    \/ \E prior \in Priors : BayesStart(prior[1], prior[2], 1)
    \/ GammaRecurse
    \/ GammaLoop
    \/ GammaReject
    \/ GammaAccept
    \/ RoundEnd
    \/ BayesFinish

SpecBayesSteps == InitBayesSteps /\ [][NextBayesSteps]_vars

\* the call runs on, and the random draws are fair: a candidate that may
\* pass the test does not fail it for ever.  The round's end is a step of
\* RoundEndWith whichever sample is greater.
FairBayesSteps ==
    /\ SpecBayesSteps
    /\ WF_vars(GammaRecurse)
    /\ WF_vars(GammaLoop)
    /\ WF_vars(GammaAccept)
    /\ WF_vars(\E won \in BOOLEAN : RoundEndWith(IF won THEN sim.bWins + 1 ELSE sim.bWins))
    /\ WF_vars(BayesFinish)

\* C26: every call of bayesianProbability terminates: the recursion on a
\* shape below 1 reaches a shape >= 1, under fair draws the rejection loop
\* accepts a candidate, and after all 10,000 rounds a value is returned.
C26_BayesianProbabilityTerminates ==
    (sim.pc # "idle") ~> (sim.pc = "returned" /\ sim.i = numSamples
                           /\ ret.fn = "bayesianProbability")

\* a call whose first shape was below 1, and went through the recursion,
\* has returned after all its rounds
C26_Witness ==
    /\ sim.pc = "returned"
    /\ sim.alphaA < 1
    /\ sim.i = numSamples
    /\ ret.fn = "bayesianProbability"

(***************************************************************************)
(* SpecRateLimit: calls of checkRateLimit on one Map, with a fixed limit   *)
(* and windowMs, as the clock (Date.now()) moves on.  The Map is a         *)
(* sequence of <<key, timestamps>> entries in insertion order.             *)
(***************************************************************************)
MaxLimitCalls == 4
MaxNow == 3

RateKeys == {"ip1", "ip2"}
Limits == {0, 1, 2}
Windows == {0, 1, 2}

mapHas(map, key) == \E i \in 1 .. Len(map) : map[i][1] = key

mapGet(map, key) == map[CHOOSE i \in 1 .. Len(map) : map[i][1] = key][2]

mapSet(map, key, value) ==
    IF mapHas(map, key)
    THEN [i \in 1 .. Len(map) |-> IF map[i][1] = key THEN <<key, value>> ELSE map[i]]
    ELSE Append(map, <<key, value>>)

\* requests.filter(timestamp => timestamp > windowStart)
RECURSIVE filterAfter(_, _)
filterAfter(requests, windowStart) ==
    IF requests = <<>> THEN <<>>
    ELSE IF Head(requests) > windowStart
         THEN <<Head(requests)>> \o filterAfter(Tail(requests), windowStart)
         ELSE filterAfter(Tail(requests), windowStart)

\* checkRateLimit with > for >= in the test of the limit
checkRateLimit_offByOne(map, key, limit, windowMs, now) ==
    LET windowStart == now - windowMs
        withKey == IF mapHas(map, key) THEN map ELSE mapSet(map, key, <<>>)
        validRequests == filterAfter(mapGet(withKey, key), windowStart)
    IN  IF Len(validRequests) > limit
        THEN [result |-> FALSE, map |-> withKey]
        ELSE [result |-> TRUE, map |-> mapSet(withKey, key, Append(validRequests, now))]

\* the value returned and the Map after the call
checkRateLimit(map, key, limit, windowMs, now) ==
    LET windowStart == now - windowMs
        withKey == IF mapHas(map, key) THEN map ELSE mapSet(map, key, <<>>)
        validRequests == filterAfter(mapGet(withKey, key), windowStart)
    IN  IF Len(validRequests) >= limit
        THEN [result |-> FALSE, map |-> withKey]
        ELSE [result |-> TRUE, map |-> mapSet(withKey, key, Append(validRequests, now))]

InitRateLimit ==
    /\ rateLimitMap = <<>>
    /\ args \in [limit : Limits, windowMs : Windows]
    /\ calls = <<>>
    /\ clock = 0
    /\ StatsIdle
    /\ trafficSplit = <<>>
    /\ bucket = 0
    /\ tally = <<>>
    /\ visitors = <<>>
    /\ reqs = <<>>
    /\ sim = NotStarted
    /\ conversionRows = <<>>
    /\ convReqs = <<>>
    /\ tests = <<>>
    /\ reply = NoReply

CheckRateLimitCall(key) ==
    /\ Len(calls) < MaxLimitCalls
    /\ LET out == checkRateLimit(rateLimitMap, key, args.limit, args.windowMs, clock)
       IN  /\ rateLimitMap' = out.map
           /\ calls' = Append(calls, [key |-> key, now |-> clock, result |-> out.result])
    /\ UNCHANGED <<obs, ret, trafficSplit, bucket, tally, visitors, reqs, clock,
                   args, sim, conversionRows, convReqs, tests, reply>>

\* Date.now() moves on
RateLimitTick ==
    /\ clock < MaxNow
    /\ clock' = clock + 1
    /\ UNCHANGED <<obs, ret, trafficSplit, calls, bucket, tally, visitors, reqs,
                   args, sim, conversionRows, convReqs, tests, reply, rateLimitMap>>

NextRateLimit ==
    \/ \E key \in RateKeys : CheckRateLimitCall(key)
    \/ RateLimitTick

SpecRateLimit == InitRateLimit /\ [][NextRateLimit]_vars

\* the calls for a key that returned true with a timestamp in (from, to]
AllowedIn(key, from, to) ==
    {i \in 1 .. Len(calls) :
        /\ calls[i].key = key
        /\ calls[i].result
        /\ calls[i].now > from
        /\ calls[i].now <= to}

\* the timestamps stored for a key are those of calls for that key that
\* returned true, each at most as often as such calls were made
StoredAreAllowed(key) ==
    mapHas(rateLimitMap, key) =>
        LET stored == mapGet(rateLimitMap, key)
        IN  \A t \in 0 .. MaxNow :
                Cardinality({k \in 1 .. Len(stored) : stored[k] = t})
                    <= Cardinality(AllowedIn(key, t - 1, t))

\* C27: for every key and every instant t at most limit calls that returned
\* true have timestamps in (t - windowMs, t]; a call that returns false
\* records no timestamp; and the result of a call is decided by the earlier
\* calls for its own key alone.
C27_SlidingWindowPerKey ==
    /\ \A key \in RateKeys, t \in 0 .. MaxNow :
          Cardinality(AllowedIn(key, t - args.windowMs, t)) <= args.limit
    /\ \A key \in RateKeys : StoredAreAllowed(key)
    /\ \A i \in 1 .. Len(calls) :
          calls[i].result =
              (Cardinality({j \in AllowedIn(calls[i].key, calls[i].now - args.windowMs,
                                            calls[i].now) : j < i}) < args.limit)

\* both keys have been limited independently: a call was refused for one key
\* and a later call at the same instant allowed for the other
C27_Witness ==
    \E i, j \in 1 .. Len(calls) :
        /\ i < j
        /\ calls[i].key # calls[j].key
        /\ calls[i].now = calls[j].now
        /\ ~calls[i].result
        /\ calls[j].result
        /\ args.limit > 0

(***************************************************************************)
(* SpecRetry: one call of retryWithBackoff(fn, retries, delay).  sim holds *)
(* the arguments of the innermost recursive call and what has happened:    *)
(* the attempts made (each named by its number) and the delays waited.     *)
(* Whether an attempt of fn succeeds is fn's choice.                       *)
(***************************************************************************)
MaxRetries == 3

Delays == {0, 1, 250, 1000}

\* delay * 2 left out
nextDelay_constant(delay) == delay

\* retryWithBackoff(fn, retries - 1, delay * 2)
nextDelay(delay) == delay * 2

InitRetry ==
    /\ rateLimitMap = <<>>
    /\ args = <<>>
    /\ sim = NotStarted
    /\ ret = NoCall
    /\ obs = <<0, 0, 0, 0>>
    /\ AssignIdle
    /\ TrackIdle
    /\ conversionRows = <<>>
    /\ convReqs = <<>>
    /\ tests = <<>>
    /\ reply = NoReply

\* the call, up to the first fn()
RetryCall(retries, delay) ==
    /\ sim.pc = "idle"
    /\ args' = [retries |-> retries, delay |-> delay]
    /\ sim' = [pc |-> "fn", retries |-> retries, delay |-> delay,
               attempts |-> 1, waited |-> <<>>]
    /\ UNCHANGED <<obs, ret, trafficSplit, calls, bucket, tally, visitors, reqs, clock,
                   conversionRows, convReqs, tests, reply, rateLimitMap>>

\* return await fn(): the attempt succeeds
FnResolves ==
    /\ sim.pc = "fn"
    /\ sim' = [sim EXCEPT !.pc = "resolved"]
    /\ ret' = [fn |-> "retryWithBackoff", val |-> [value |-> sim.attempts]]
    /\ UNCHANGED <<obs, args, trafficSplit, calls, bucket, tally, visitors, reqs, clock,
                   conversionRows, convReqs, tests, reply, rateLimitMap>>

\* catch (error): wait if retries > 0, throw error otherwise
FnRejects ==
    /\ sim.pc = "fn"
    /\ IF sim.retries > 0
       THEN sim' = [sim EXCEPT !.pc = "setTimeout"] /\ UNCHANGED ret
       ELSE /\ sim' = [sim EXCEPT !.pc = "rejected"]
            /\ ret' = [fn |-> "retryWithBackoff", val |-> [error |-> sim.attempts]]
    /\ UNCHANGED <<obs, args, trafficSplit, calls, bucket, tally, visitors, reqs, clock,
                   conversionRows, convReqs, tests, reply, rateLimitMap>>

\* the timer fires, and retryWithBackoff(fn, retries - 1, delay * 2) calls fn
TimerFires ==
    /\ sim.pc = "setTimeout"
    /\ sim' = [sim EXCEPT !.pc = "fn",
                          !.waited = Append(sim.waited, sim.delay),
                          !.retries = sim.retries - 1,
                          !.delay = nextDelay(sim.delay),
                          !.attempts = sim.attempts + 1]
    /\ UNCHANGED <<obs, ret, args, trafficSplit, calls, bucket, tally, visitors, reqs, clock,
                   conversionRows, convReqs, tests, reply, rateLimitMap>>

NextRetry ==
    \/ \E retries \in 0 .. MaxRetries, delay \in Delays : RetryCall(retries, delay)
    \/ FnResolves
    \/ FnRejects
    \/ TimerFires

SpecRetry == InitRetry /\ [][NextRetry]_vars

RECURSIVE Pow2(_)
Pow2(k) == IF k = 0 THEN 1 ELSE 2 * Pow2(k - 1)

\* C28: fn is invoked at most retries + 1 times; the wait before the
\* (k+1)-th retry is delay * 2^k; the call resolves with the value of the
\* first attempt that succeeds, which is the last attempt made; it rejects
\* with the error of the last attempt, and only after retries + 1 attempts.
C28_RetriesWithDoublingDelay ==
    sim.pc # "idle" =>
        /\ sim.attempts <= args.retries + 1
        /\ Len(sim.waited) = sim.attempts - 1
        /\ \A k \in 0 .. (Len(sim.waited) - 1) : sim.waited[k + 1] = args.delay * Pow2(k)
        /\ sim.pc = "resolved" => ret.val = [value |-> sim.attempts]
        /\ sim.pc = "rejected" =>
              /\ sim.attempts = args.retries + 1
              /\ ret.val = [error |-> sim.attempts]

\* once the call has resolved or rejected no further attempt is made
C28_SettledIsFinal ==
    [][sim.pc \in {"resolved", "rejected"} => sim' = sim /\ ret' = ret]_vars

\* a call with three retries has resolved on its third attempt after waiting
\* 1000 and 2000
C28_Witness ==
    /\ sim.pc = "resolved"
    /\ args = [retries |-> 3, delay |-> 1000]
    /\ sim.attempts = 3
    /\ sim.waited = <<1000, 2000>>
    /\ ret.val = [value |-> 3]

(***************************************************************************)
(* SpecStatus: the status changes of the tests table made through          *)
(* PATCH /api/tests/:id and DELETE /api/tests/:id (the definitions with    *)
(* the status handling), on tests created by POST /api/tests.              *)
(***************************************************************************)
StatusSplit == <<<<LabelA, JsNumber(50)>>, <<LabelB, JsNumber(50)>>>>

NextStatus ==
    \/ \E canCreateTests \in BOOLEAN : CreateTest(StatusSplit, canCreateTests)
    \/ \E id \in 1 .. MaxTests, status \in Statuses \cup {NoStatus}, canEditTests \in BOOLEAN :
          UpdateTest(id, NoSplit, status, canEditTests)
    \/ \E id \in 1 .. MaxTests, canDeleteTests \in BOOLEAN : DeleteTest(id, canDeleteTests)

SpecStatus == InitTests /\ [][NextStatus]_vars

\* C29: after any sequence of status changes every test whose status is
\* 'running' has startedAt set and every test whose status is 'completed'
\* has endedAt set.
C29_RunningStartedCompletedEnded ==
    \A i \in 1 .. Len(tests) :
        /\ tests[i].status = "running" => tests[i].startedAt # NullDate
        /\ tests[i].status = "completed" => tests[i].endedAt # NullDate

\* what the status handling does keep: a PATCH that moves a draft to
\* 'running' sets startedAt, and one that moves a running test to 'completed'
\* sets endedAt
C29_DirectTransitionsSetDates ==
    [][\A i \in 1 .. Len(tests) :
          /\ (tests[i].status = "draft" /\ tests'[i].status = "running")
                => tests'[i].startedAt # NullDate
          /\ (tests[i].status = "running" /\ tests'[i].status = "completed")
                => tests'[i].endedAt # NullDate]_vars

(***************************************************************************)
(* SpecInactive: the three tracking routes on requests for a running test  *)
(* (Test1), a paused test (Test2), a running test of an inactive client    *)
(* (Test3) and a test that does not exist, with bodies that pass and       *)
(* bodies that fail validation.  The tests table does not change while the *)
(* requests run.                                                           *)
(***************************************************************************)
TrackedTestIds == {Test1, Test2, Test3, MissingTest}

User3 == <<117, 51>>

NextInactive ==
    \/ \E testId \in TrackedTestIds :
          RoomForRequest /\ PostVisitor(User3, testId, LabelA, NoUserAgent)
    \/ RoomForRequest /\ PostVisitor(User3, Test2, <<>>, NoUserAgent)
    \/ \E i \in 1 .. Len(reqs) : FindTest(i)
    \/ \E i \in 1 .. Len(reqs) : FindVisitor(i)
    \/ \E i \in 1 .. Len(reqs) : UpdateVisitor(i)
    \/ \E i \in 1 .. Len(reqs) : CreateVisitor(i)
    \/ \E testId \in TrackedTestIds :
          RoomForRequest /\ PostConversion(User3, testId, LabelA)
    \/ RoomForRequest /\ PostConversion(User3, Test2, <<>>)
    \/ \E testId \in TrackedTestIds :
          RoomForRequest /\ PostEvent(User3, testId, GoalEvent)
    \/ RoomForRequest /\ PostEvent(User3, Test3, <<>>)
    \/ \E i \in 1 .. Len(convReqs) : ConvFindTest(i)
    \/ \E i \in 1 .. Len(convReqs) : ConvFindVisitor(i)
    \/ \E i \in 1 .. Len(convReqs) : ConvFindConversion(i)
    \/ \E i \in 1 .. Len(convReqs) : ConvCreate(i)

SpecInactive == InitTrack /\ [][NextInactive]_vars

\* the test of a request is running and its client active
Trackable(testId) ==
    /\ testId \in DOMAIN Tests
    /\ Tests[testId].status = "running"
    /\ Tests[testId].clientActive

\* the answered requests of all three routes: <<testId, status>>
AnsweredRequests ==
    {<<reqs[i].testId, reqs[i].status>> : i \in {k \in 1 .. Len(reqs) : reqs[k].pc = "done"}}
        \cup {<<convReqs[i].testId, convReqs[i].status>> :
                 i \in {k \in 1 .. Len(convReqs) : convReqs[k].pc = "done"}}

\* a step of a request whose test is not trackable
UntrackableStep ==
    \/ \E i \in 1 .. Len(reqs) : reqs'[i] # reqs[i] /\ ~Trackable(reqs[i].testId)
    \/ \E i \in 1 .. Len(convReqs) :
          convReqs'[i] # convReqs[i] /\ ~Trackable(convReqs[i].testId)

=============================================================================
